---- MODULE Spec2Model ----
(***************************************************************************)
(* Model of showinfm ("Show in File Manager"): the per-call orchestration  *)
(* of show_in_file_manager (class FileManager in filemanager.py and the    *)
(* module-level revision in showinfm.py), the valid-file-manager probe of  *)
(* system/linux.py and the command-line entry point main().                *)
(*                                                                         *)
(* Strings that the program only compares are TLA+ strings.  Paths and     *)
(* URIs are records [k, n, sl]: n names the filesystem object the text     *)
(* denotes, k the textual form it has after the conversions applied to it  *)
(* and sl whether the text ends in a separator; src is the position, in    *)
(* path_or_uri, of the input an entry of a list was made from.             *)
(***************************************************************************)
EXTENDS Integers, Sequences, FiniteSets, TLC

\* ---------------------------------------------------------------- bounds
\* longest path_or_uri sequence a call is given
MaxInputs == 2

\* the probe counter stops counting here
MaxProbes == 2

\* ---------------------------------------------------------------- values
NONE == "<None>"

NoTarget == [k |-> "none", n |-> "-", sl |-> FALSE, src |-> 0]

Truthy(s) == s # NONE /\ s # ""

FileManagerType ==
    {"regular", "select", "dir_only_uri", "show_item", "show_items",
     "win_select", "reveal", "dual_panel"}

Platform == {"windows", "linux", "macos"}

single_file_only == {"explorer.exe", "pcmanfm", "open", "cutefish-filemanager"}

cannot_open_uris == {"fman", "fman.exe"}

\* ---------------------------------------------------------------- tables
LinuxFileManagerBehavior ==
    [nautilus |-> "select", dolphin |-> "select", caja |-> "dir_only_uri",
     thunar |-> "dir_only_uri", nemo |-> "regular", pcmanfm |-> "dir_only_uri",
     peony |-> "show_items", index |-> "dir_only_uri", doublecmd |-> "dual_panel",
     krusader |-> "dir_only_uri", spacefm |-> "dir_only_uri", fman |-> "dual_panel"]
    @@ ("pcmanfm-qt" :> "dir_only_uri")
    @@ ("dde-file-manager" :> "show_item")
    @@ ("io.elementary.files" :> "regular")
    @@ ("cutefish-filemanager" :> "dir_only_uri")
    @@ ("lumina-fm" :> "dir_only_uri")

known_linux_file_managers == DOMAIN LinuxFileManagerBehavior

WindowsFileManagerBehavior ==
    ("doublecmd.exe" :> "dual_panel") @@ ("fman.exe" :> "dual_panel")

windows_file_manager_type(file_manager) ==
    IF file_manager = "explorer.exe" THEN "win_select"
    ELSE IF file_manager \in DOMAIN WindowsFileManagerBehavior
         THEN WindowsFileManagerBehavior[file_manager]
         ELSE "regular"

\* caja_select: the outcome of caja_supports_select(), read only for caja
linux_file_manager_type(file_manager, caja_select) ==
    IF file_manager = "caja" /\ caja_select THEN "select"
    ELSE IF file_manager \in DOMAIN LinuxFileManagerBehavior
         THEN LinuxFileManagerBehavior[file_manager]
         ELSE "regular"

\* ---------------------------------------------------------------- filesystem
\* The objects the inputs of the model denote.  exists / is_dir are what
\* Path.exists() / Path.is_dir() answer, parent is Path.parent, mnt says the
\* Linux path of the object begins with /mnt/ (a Windows drive under WSL).
FS ==
    [fA |-> [exists |-> TRUE,  is_dir |-> FALSE, parent |-> "dP", mnt |-> FALSE],
     fB |-> [exists |-> TRUE,  is_dir |-> FALSE, parent |-> "dP", mnt |-> FALSE],
     dD |-> [exists |-> TRUE,  is_dir |-> TRUE,  parent |-> "dP", mnt |-> FALSE],
     gX |-> [exists |-> FALSE, is_dir |-> FALSE, parent |-> "dD", mnt |-> FALSE],
     wF |-> [exists |-> TRUE,  is_dir |-> FALSE, parent |-> "wP", mnt |-> TRUE],
     wD |-> [exists |-> TRUE,  is_dir |-> TRUE,  parent |-> "wP", mnt |-> TRUE],
     dP |-> [exists |-> TRUE,  is_dir |-> TRUE,  parent |-> "root", mnt |-> FALSE],
     wP |-> [exists |-> TRUE,  is_dir |-> TRUE,  parent |-> "mntc", mnt |-> TRUE],
     mntc |-> [exists |-> TRUE, is_dir |-> TRUE, parent |-> "root", mnt |-> TRUE],
     root |-> [exists |-> TRUE, is_dir |-> TRUE, parent |-> "root", mnt |-> FALSE]]

Nodes == DOMAIN FS

\* ---------------------------------------------------------------- linux.py
\* An outcome of a probe: it raised, or it returned value.
Raised == [raises |-> TRUE, value |-> ""]

Returned(v) == [raises |-> FALSE, value |-> v]

valid_linux_file_manager_ignores_unknown(stock_out, user_out, on_path) ==
    LET stock == IF stock_out.raises THEN "" ELSE stock_out.value
        user_fm == IF user_out.raises THEN "" ELSE user_out.value
        fm == IF user_fm # "" THEN user_fm ELSE stock
    IN  IF user_fm = "" /\ stock = "" THEN ""
        ELSE IF fm # "" /\ fm \in on_path THEN fm ELSE ""

valid_linux_file_manager_no_which(stock_out, user_out, on_path) ==
    LET stock == IF stock_out.raises THEN "" ELSE stock_out.value
        user_fm == IF user_out.raises THEN ""
                   ELSE IF user_out.value \notin known_linux_file_managers THEN ""
                   ELSE user_out.value
    IN  IF user_fm # "" THEN user_fm ELSE stock

\* stock_out, user_out: the outcomes of stock_linux_file_manager() and
\* user_linux_file_manager(); on_path: the names shutil.which() resolves.
valid_linux_file_manager(stock_out, user_out, on_path) ==
    LET stock == IF stock_out.raises THEN "" ELSE stock_out.value
        user_fm == IF user_out.raises THEN ""
                   ELSE IF user_out.value \notin known_linux_file_managers THEN ""
                   ELSE user_out.value
        fm == IF user_fm # "" THEN user_fm ELSE stock
    IN  IF user_fm = "" /\ stock = "" THEN ""
        ELSE IF fm # "" /\ fm \in on_path THEN fm ELSE ""

\* ---------------------------------------------------------------- WSL translator
Tgt(kind, node, slash) == [k |-> kind, n |-> node, sl |-> slash, src |-> 0]

IsSet(t) == t.k # "none"

FileUriForms == {"uri", "uri_drive", "uri_unc"}

\* pu = [form, n, sl]: the syntax of the input text and what it denotes.
\*   path      POSIX absolute path         uri        file: URI, POSIX path
\*   rel       relative path               uri_drive  file:///c:/...
\*   drive     C:\...                      uri_unc    file://host/...
\*   unc       \\host\share\...            uri_other  a URI of another scheme
\* u_ok, w_ok: whether `wslpath -u` and `wslpath -w` succeed for this input.

\* the classification of the input form: linux_path, win_path and win_uri
\* before anything is looked up on disk
wsl_classify_form(pu, u_ok) ==
    LET n == pu.n
        is_file_uri == pu.form \in FileUriForms
        is_win_uri == pu.form \in {"uri_drive", "uri_unc"}
        posix_not_mnt == pu.form = "path" /\ ~FS[n].mnt
        win_style == pu.form \in {"drive", "unc"}
        is_unc == pu.form = "unc"
        via_helper == IF is_file_uri THEN is_win_uri ELSE win_style
        translated == via_helper /\ u_ok
        \* relative paths are resolved, which drops a trailing separator
        lp_sl == IF is_file_uri \/ posix_not_mnt THEN pu.sl ELSE FALSE
    IN  [linux_path |-> IF via_helper
                        THEN (IF u_ok THEN Tgt("path", n, FALSE) ELSE NoTarget)
                        ELSE Tgt("path", n, lp_sl),
         \* the path of a file: URI keeps its forward slashes
         win_path |-> IF via_helper
                      THEN Tgt(IF is_file_uri THEN "win_path_of_uri" ELSE "win_path",
                               n, pu.sl)
                      ELSE NoTarget,
         win_uri |-> IF is_file_uri
                     THEN (IF is_win_uri THEN Tgt("win_uri_orig", n, pu.sl)
                           ELSE NoTarget)
                     ELSE IF win_style
                          THEN (IF is_unc THEN Tgt("win_uri_unc", n, pu.sl)
                                ELSE IF translated THEN Tgt("win_uri_drive", n, FALSE)
                                ELSE NoTarget)
                          ELSE NoTarget,
         \* wsl_path_to_uri_for_windows_explorer asserts a /mnt/ path
         raises |-> ~is_file_uri /\ win_style /\ ~is_unc /\ translated /\ ~FS[n].mnt]

wsl_examine_keeps_exists(c, generate_win_path, w_ok) ==
    LET known == IsSet(c.linux_path)
        n == c.linux_path.n
        exists0 == known /\ FS[n].exists
        mnt == known /\ FS[n].mnt
        translate_back == exists0 /\ (generate_win_path \/ mnt)
        win_path == IF translate_back /\ w_ok THEN Tgt("win_path", n, c.linux_path.sl)
                    ELSE c.win_path
    IN  [is_win_location |-> IF ~known THEN NONE ELSE IF mnt THEN "True" ELSE "False",
         win_uri |-> IF translate_back /\ IsSet(win_path) /\ ~IsSet(c.win_uri)
                     THEN (IF ~mnt THEN Tgt("win_uri_unc", n, win_path.sl)
                           ELSE Tgt("win_uri_drive", n, c.linux_path.sl))
                     ELSE c.win_uri,
         win_path |-> win_path,
         linux_path |-> c.linux_path,
         is_dir |-> IF exists0 THEN (IF FS[n].is_dir THEN "True" ELSE "False")
                    ELSE NONE,
         exists |-> exists0,
         raises |-> c.raises]

wsl_examine_is_dir_or_none(c, generate_win_path, w_ok) ==
    [wsl_examine_keeps_exists(c, generate_win_path, w_ok)
        EXCEPT !.is_dir = IF @ = "True" THEN @ ELSE NONE]

wsl_examine_windows_by_syntax(c, generate_win_path, w_ok) ==
    LET known == IsSet(c.linux_path)
        n == c.linux_path.n
        exists0 == known /\ FS[n].exists
        mnt == known /\ FS[n].mnt
        translate_back == exists0 /\ (generate_win_path \/ mnt)
        win_path == IF translate_back /\ w_ok THEN Tgt("win_path", n, c.linux_path.sl)
                    ELSE c.win_path
    IN  [is_win_location |-> IF ~known THEN NONE
                             ELSE IF IsSet(c.win_path) THEN "True" ELSE "False",
         win_uri |-> IF translate_back /\ IsSet(win_path) /\ ~IsSet(c.win_uri)
                     THEN (IF ~mnt THEN Tgt("win_uri_unc", n, win_path.sl)
                           ELSE Tgt("win_uri_drive", n, c.linux_path.sl))
                     ELSE c.win_uri,
         win_path |-> win_path,
         linux_path |-> c.linux_path,
         is_dir |-> IF exists0 THEN (IF FS[n].is_dir THEN "True" ELSE "False")
                    ELSE NONE,
         exists |-> IF translate_back /\ ~w_ok THEN FALSE ELSE exists0,
         raises |-> c.raises]

\* existence, directory status and the Windows-side path and URI
wsl_examine(c, generate_win_path, w_ok) ==
    LET known == IsSet(c.linux_path)
        n == c.linux_path.n
        exists0 == known /\ FS[n].exists
        mnt == known /\ FS[n].mnt
        translate_back == exists0 /\ (generate_win_path \/ mnt)
        win_path == IF translate_back /\ w_ok THEN Tgt("win_path", n, c.linux_path.sl)
                    ELSE c.win_path
    IN  [is_win_location |-> IF ~known THEN NONE ELSE IF mnt THEN "True" ELSE "False",
         win_uri |-> IF translate_back /\ IsSet(win_path) /\ ~IsSet(c.win_uri)
                     THEN (IF ~mnt THEN Tgt("win_uri_unc", n, win_path.sl)
                           ELSE Tgt("win_uri_drive", n, c.linux_path.sl))
                     ELSE c.win_uri,
         win_path |-> win_path,
         linux_path |-> c.linux_path,
         is_dir |-> IF exists0 THEN (IF FS[n].is_dir THEN "True" ELSE "False")
                    ELSE NONE,
         exists |-> IF translate_back /\ ~w_ok THEN FALSE ELSE exists0,
         raises |-> c.raises]

wsl_normalise_keeps_separators(r) ==
    [r EXCEPT
       !.raises = \/ @
                  \/ (IsSet(r.linux_path) /\ r.is_win_location = NONE)
                  \/ (IsSet(r.win_uri) /\ ~IsSet(r.win_path))
                  \/ (r.exists /\ r.is_dir = NONE)]

\* the normalisation of directories and the closing assertions
wsl_normalise(r) ==
    LET d == r.is_dir = "True"
    IN  [r EXCEPT
           !.linux_path = IF d /\ IsSet(@) THEN [@ EXCEPT !.sl = FALSE] ELSE @,
           !.win_path = IF d /\ @.k = "win_path" THEN [@ EXCEPT !.sl = FALSE] ELSE @,
           !.win_uri = IF d /\ IsSet(@) THEN [@ EXCEPT !.sl = TRUE] ELSE @,
           !.raises = \/ @
                      \/ (IsSet(r.linux_path) /\ r.is_win_location = NONE)
                      \/ (IsSet(r.win_uri) /\ ~IsSet(r.win_path))
                      \/ (r.exists /\ r.is_dir = NONE)]

wsl_transform_path_uri(pu, generate_win_path, u_ok, w_ok) ==
    CHOOSE r \in {wsl_normalise(e) :
                    e \in {wsl_examine(c, generate_win_path, w_ok) :
                             c \in {wsl_classify_form(pu, u_ok)}}} : TRUE

\* ---------------------------------------------------------------- state
VARIABLES
    current_platform,   \* system/__init__.py: Platform of the process
    wsl,                \* "none", "wsl1" or "wsl2" (is_wsl, is_wsl1, is_wsl2)
    impl,               \* which show_in_file_manager runs: "engine" is
                        \* FileManager (filemanager.py), "module" showinfm.py
    valid_file_manager_probed,
    valid_file_manager_memo,
    valid_file_manager_type_memo,
    file_manager,
    file_manager_type,
    file_manager_specified,
    open_not_select_directory,
    allow_conversion,
    arg,
    locations,
    directories,
    wsl_windows_paths,
    wsl_windows_directories,
    pc,                 \* position of the call in progress
    given,              \* the path_or_uri argument of the call is not empty
    inputs,             \* the path_or_uri items the loop has taken so far
    launches,           \* processes created by the call, in order
    raised,             \* the call ended by raising
    probes,             \* how often valid_file_manager() ran in this process
    first_valid,        \* what the first probe of the process resolved
    resolved,           \* the call's file_manager argument (with), the executable
                        \* and type it resolved before launching, how ("forced",
                        \* "probed" now, or read from the "memo") and whether
                        \* the lists held entries when the call began (residue)
    main_pc,            \* position of main(); "api" when a program calls the
                        \* function itself, "probe" when only the Linux
                        \* resolution is exercised
    args,               \* main(): the parsed command line
    path_or_uri,        \* main(): the list handed to show_in_file_manager, the
                        \* items the loop has not taken yet
    stderr,             \* main(): what the except clause wrote
    exception,          \* main(): where an exception was raised ("" nowhere)
    uncaught,           \* main(): the exception left main()
    probe_in,           \* valid_linux_file_manager(), Diagnostics(): what the
                        \* environment gave
    probe_out           \* valid_linux_file_manager(), Diagnostics(): the result

config == <<current_platform, wsl, impl>>

memo == <<valid_file_manager_probed, valid_file_manager_memo, valid_file_manager_type_memo>>

flags == <<file_manager_specified, open_not_select_directory, allow_conversion>>

lists == <<locations, directories, wsl_windows_paths, wsl_windows_directories>>

cli == <<main_pc, args, path_or_uri, stderr, exception, uncaught>>

probe == <<probe_in, probe_out>>

vars == <<config, memo, flags, lists, file_manager, file_manager_type, arg, pc,
          given, inputs, launches, raised, probes, first_valid, resolved, cli, probe>>

is_wsl == wsl # "none"

is_wsl1 == wsl = "wsl1"

is_wsl2 == wsl = "wsl2"

\* ---------------------------------------------------------------- tools.py
is_uri(pu) == pu.form \in FileUriForms \cup {"uri_other"}

filemanager_requires_path(fm) ==
    current_platform = "windows" \/ fm \in cannot_open_uris

\* ---------------------------------------------------------------- resolution
\* The outcomes the probes of linux.py can have in the modelled environments.
StockOutcomes ==
    IF is_wsl THEN {Raised, Returned("explorer.exe")}
    ELSE {Raised, Returned("pcmanfm")}

UserOutcomes == {Raised, Returned(""), Returned("nautilus"), Returned("unknownfm")}

PathSets == {{}, {"nautilus", "pcmanfm", "explorer.exe"}}

valid_file_manager_results ==
    IF current_platform = "windows" \/ is_wsl1 THEN {"explorer.exe"}
    ELSE IF current_platform = "linux"
         THEN {valid_linux_file_manager(s, u, w) :
                   s \in StockOutcomes, u \in UserOutcomes, w \in PathSets}
         ELSE {"open"}

_file_manager_type(fm, caja_select) ==
    IF current_platform = "windows" \/ is_wsl1 THEN windows_file_manager_type(fm)
    ELSE IF current_platform = "linux" THEN linux_file_manager_type(fm, caja_select)
    ELSE "reveal"

\* ---------------------------------------------------------------- classification
\* What one input contributes: fully_processed with nothing further to do, or
\* a path / URI for the select-vs-open step; wpaths / wdirs are the entries
\* appended to wsl_windows_paths / wsl_windows_directories.
Pass(fp, path, uri, wpaths, wdirs, raises) ==
    [fully_processed |-> fp, path |-> path, uri |-> uri,
     wpaths |-> wpaths, wdirs |-> wdirs, raises |-> raises]

Skip == Pass(TRUE, NoTarget, NoTarget, <<>>, <<>>, FALSE)

_process_path_or_uri_wsl_with_location_only(wsl_details) ==
    LET use_windows_explorer_via_wsl ==
            wsl_details.is_win_location = "True" /\ ~file_manager_specified
    IN  IF wsl_details.raises THEN Pass(TRUE, NoTarget, NoTarget, <<>>, <<>>, TRUE)
        ELSE IF ~wsl_details.exists THEN Skip
        ELSE IF use_windows_explorer_via_wsl
        THEN IF ~IsSet(wsl_details.win_uri) THEN Skip
             ELSE IF ~(wsl_details.is_dir = "True" /\ open_not_select_directory)
                  THEN Pass(TRUE, NoTarget, NoTarget, <<wsl_details.win_uri>>, <<>>, FALSE)
                  ELSE Pass(TRUE, NoTarget, NoTarget, <<>>, <<wsl_details.win_uri>>, FALSE)
        ELSE IF ~IsSet(wsl_details.linux_path) THEN Skip
             ELSE IF filemanager_requires_path(file_manager)
                  THEN Pass(FALSE, Tgt("path", wsl_details.linux_path.n, FALSE),
                            NoTarget, <<>>, <<>>, FALSE)
                  ELSE Pass(FALSE, NoTarget,
                            Tgt("as_uri", wsl_details.linux_path.n, FALSE),
                            <<>>, <<>>, FALSE)

_process_path_or_uri_wsl_with_no_skip(wsl_details) ==
    LET use_windows_explorer_via_wsl ==
            \/ (wsl_details.is_win_location = "True" /\ ~file_manager_specified)
            \/ file_manager = "explorer.exe"
    IN  IF wsl_details.raises THEN Pass(TRUE, NoTarget, NoTarget, <<>>, <<>>, TRUE)
        ELSE IF use_windows_explorer_via_wsl
        THEN IF ~IsSet(wsl_details.win_uri) THEN Skip
             ELSE IF ~(wsl_details.is_dir = "True" /\ open_not_select_directory)
                  THEN Pass(TRUE, NoTarget, NoTarget, <<wsl_details.win_uri>>, <<>>, FALSE)
                  ELSE Pass(TRUE, NoTarget, NoTarget, <<>>, <<wsl_details.win_uri>>, FALSE)
        ELSE IF ~IsSet(wsl_details.linux_path) THEN Skip
             ELSE IF filemanager_requires_path(file_manager)
                  THEN Pass(FALSE, Tgt("path", wsl_details.linux_path.n, FALSE),
                            NoTarget, <<>>, <<>>, FALSE)
                  ELSE Pass(FALSE, NoTarget,
                            Tgt("as_uri", wsl_details.linux_path.n, FALSE),
                            <<>>, <<>>, FALSE)

_process_path_or_uri_wsl_with_windows_side_only(wsl_details) ==
    LET use_windows_explorer_via_wsl ==
            /\ wsl_details.is_win_location = "True"
            /\ (~file_manager_specified \/ file_manager = "explorer.exe")
    IN  IF wsl_details.raises THEN Pass(TRUE, NoTarget, NoTarget, <<>>, <<>>, TRUE)
        ELSE IF ~wsl_details.exists THEN Skip
        ELSE IF use_windows_explorer_via_wsl
        THEN IF ~(wsl_details.is_dir = "True" /\ open_not_select_directory)
             THEN Pass(TRUE, NoTarget, NoTarget, <<wsl_details.win_uri>>, <<>>, FALSE)
             ELSE Pass(TRUE, NoTarget, NoTarget, <<>>, <<wsl_details.win_uri>>, FALSE)
        ELSE IF filemanager_requires_path(file_manager)
             THEN Pass(FALSE, Tgt("path", wsl_details.linux_path.n, FALSE),
                       NoTarget, <<>>, <<>>, FALSE)
             ELSE Pass(FALSE, NoTarget,
                       Tgt("as_uri", wsl_details.linux_path.n, FALSE),
                       <<>>, <<>>, FALSE)

\* wsl_details: the answer of wsl_transform_path_uri for the input
_process_path_or_uri_wsl_with(wsl_details) ==
    LET use_windows_explorer_via_wsl ==
            \/ (wsl_details.is_win_location = "True" /\ ~file_manager_specified)
            \/ file_manager = "explorer.exe"
    IN  IF wsl_details.raises THEN Pass(TRUE, NoTarget, NoTarget, <<>>, <<>>, TRUE)
        ELSE IF ~wsl_details.exists THEN Skip
        ELSE IF use_windows_explorer_via_wsl
        THEN IF ~IsSet(wsl_details.win_uri) THEN Skip
             ELSE IF ~(wsl_details.is_dir = "True" /\ open_not_select_directory)
                  THEN Pass(TRUE, NoTarget, NoTarget, <<wsl_details.win_uri>>, <<>>, FALSE)
                  ELSE Pass(TRUE, NoTarget, NoTarget, <<>>, <<wsl_details.win_uri>>, FALSE)
        ELSE IF ~IsSet(wsl_details.linux_path) THEN Skip
             ELSE IF filemanager_requires_path(file_manager)
                  THEN Pass(FALSE, Tgt("path", wsl_details.linux_path.n, FALSE),
                            NoTarget, <<>>, <<>>, FALSE)
                  ELSE Pass(FALSE, NoTarget,
                            Tgt("as_uri", wsl_details.linux_path.n, FALSE),
                            <<>>, <<>>, FALSE)

_process_path_or_uri_wsl(pu, u_ok, w_ok) ==
    CHOOSE p \in {_process_path_or_uri_wsl_with(d) :
                    d \in {wsl_transform_path_uri(pu, file_manager = "explorer.exe",
                                                  u_ok, w_ok)}} : TRUE

\* showinfm.py: the same step without the guards on an unset win_uri / linux_path
show_in_file_manager_wsl_with(wsl_details) ==
    LET use_windows_explorer_via_wsl ==
            \/ (wsl_details.is_win_location = "True" /\ ~file_manager_specified)
            \/ file_manager = "explorer.exe"
    IN  IF wsl_details.raises THEN Pass(TRUE, NoTarget, NoTarget, <<>>, <<>>, TRUE)
        ELSE IF ~wsl_details.exists THEN Skip
        ELSE IF use_windows_explorer_via_wsl
        THEN IF ~(wsl_details.is_dir = "True" /\ open_not_select_directory)
             THEN Pass(TRUE, NoTarget, NoTarget, <<wsl_details.win_uri>>, <<>>, FALSE)
             ELSE Pass(TRUE, NoTarget, NoTarget, <<>>, <<wsl_details.win_uri>>, FALSE)
        ELSE IF ~IsSet(wsl_details.linux_path)
             THEN Pass(TRUE, NoTarget, NoTarget, <<>>, <<>>, TRUE)
             ELSE IF filemanager_requires_path(file_manager)
                  THEN Pass(FALSE, Tgt("path", wsl_details.linux_path.n, FALSE),
                            NoTarget, <<>>, <<>>, FALSE)
                  ELSE Pass(FALSE, NoTarget,
                            Tgt("as_uri", wsl_details.linux_path.n, FALSE),
                            <<>>, <<>>, FALSE)

show_in_file_manager_wsl(pu, u_ok, w_ok) ==
    CHOOSE p \in {show_in_file_manager_wsl_with(d) :
                    d \in {wsl_transform_path_uri(pu, file_manager = "explorer.exe",
                                                  u_ok, w_ok)}} : TRUE

ConvertNonWsl_always_converts(pu) ==
    IF filemanager_requires_path(file_manager)
    THEN [path |-> Tgt("path", pu.n, FALSE), uri |-> NoTarget]
    ELSE IF is_uri(pu) THEN [path |-> NoTarget, uri |-> Tgt("uri", pu.n, pu.sl)]
    ELSE [path |-> NoTarget, uri |-> Tgt("as_uri", pu.n, FALSE)]

\* path and uri of an input outside WSL (both revisions convert alike)
ConvertNonWsl(pu) ==
    IF is_uri(pu)
    THEN IF filemanager_requires_path(file_manager) /\ allow_conversion
         THEN [path |-> Tgt("path", pu.n, FALSE), uri |-> NoTarget]
         ELSE [path |-> NoTarget, uri |-> Tgt("uri", pu.n, pu.sl)]
    ELSE IF filemanager_requires_path(file_manager) \/ ~allow_conversion
         THEN [path |-> Tgt("path", pu.n, FALSE), uri |-> NoTarget]
         ELSE [path |-> NoTarget, uri |-> Tgt("as_uri", pu.n, FALSE)]

_process_path_or_uri_non_wsl(pu) ==
    LET c == ConvertNonWsl(pu)
        haserror == ~FS[pu.n].exists
    IN  Pass(haserror, c.path, c.uri, <<>>, <<>>, FALSE)

show_in_file_manager_non_wsl(pu) ==
    LET c == ConvertNonWsl(pu)
    IN  Pass(FALSE, c.path, c.uri, <<>>, <<>>, FALSE)

_process_path_or_uri_no_select_always_parent(path, uri) ==
    LET node == IF IsSet(uri) THEN uri.n ELSE path.n
        shown == FS[node].parent
    IN  IF IsSet(uri) THEN Tgt("reuri", shown, FALSE) ELSE Tgt("quoted", shown, FALSE)

\* the entry appended to locations
_process_path_or_uri_no_select(path, uri) ==
    LET node == IF IsSet(uri) THEN uri.n ELSE path.n
        shown == IF FS[node].is_dir /\ open_not_select_directory
                 THEN node ELSE FS[node].parent
    IN  IF IsSet(uri) THEN Tgt("reuri", shown, FALSE) ELSE Tgt("quoted", shown, FALSE)

_process_path_or_uri_can_select_never_parent(path, uri) ==
    LET node == IF IsSet(uri) THEN uri.n ELSE path.n
        examine == \/ (open_not_select_directory /\ file_manager_type # "dual_panel")
                   \/ file_manager_type = "regular"
        is_directory == examine /\ FS[node].is_dir
        dentry == IF IsSet(uri) THEN uri ELSE Tgt("quoted", node, FALSE)
        lentry == IF IsSet(uri) THEN uri
                  ELSE IF file_manager # "explorer.exe" THEN Tgt("quoted", node, FALSE)
                  ELSE Tgt("path", node, FALSE)
    IN  IF is_directory THEN [dirs |-> <<dentry>>, locs |-> <<>>]
        ELSE [dirs |-> <<>>, locs |-> <<lentry>>]

_process_path_or_uri_can_select_and_open(path, uri) ==
    LET r == _process_path_or_uri_can_select_never_parent(path, uri)
    IN  IF r.dirs # <<>> THEN [dirs |-> r.dirs, locs |-> r.dirs] ELSE r

\* [dirs, locs]: the entries appended to directories and to locations
_process_path_or_uri_can_select(path, uri) ==
    LET node == IF IsSet(uri) THEN uri.n ELSE path.n
        examine == \/ (open_not_select_directory /\ file_manager_type # "dual_panel")
                   \/ file_manager_type = "regular"
        is_directory == examine /\ FS[node].is_dir
        to_parent == file_manager_type = "regular" /\ ~open_not_select_directory
        dnode == IF to_parent THEN FS[node].parent ELSE node
        duri == IF to_parent /\ IsSet(uri) THEN Tgt("as_uri", dnode, FALSE) ELSE uri
        dentry == IF IsSet(duri) THEN duri ELSE Tgt("quoted", dnode, FALSE)
        lentry == IF IsSet(uri) THEN uri
                  ELSE IF file_manager # "explorer.exe" THEN Tgt("quoted", node, FALSE)
                  ELSE Tgt("path", node, FALSE)
    IN  IF is_directory THEN [dirs |-> <<dentry>>, locs |-> <<>>]
        ELSE [dirs |-> <<>>, locs |-> <<lentry>>]

\* p: what the platform-specific step made of the input
SelectOrOpen(p) ==
    IF p.fully_processed THEN [dirs |-> <<>>, locs |-> <<>>]
    ELSE IF file_manager_type = "dir_only_uri"
         THEN [dirs |-> <<>>,
               locs |-> <<_process_path_or_uri_no_select(p.path, p.uri)>>]
         ELSE _process_path_or_uri_can_select(p.path, p.uri)

\* list entries made from the input being classified
Entries(ts) == [i \in DOMAIN ts |-> <<[ts[i] EXCEPT !.src = Len(inputs) + 1]>>]

\* the four lists once the entries of one input are appended
ListsAfter(p, sel) ==
    [locations |-> locations \o Entries(sel.locs),
     directories |-> directories \o Entries(sel.dirs),
     wsl_windows_paths |-> wsl_windows_paths \o Entries(p.wpaths),
     wsl_windows_directories |-> wsl_windows_directories \o Entries(p.wdirs),
     raises |-> p.raises]

\* one iteration of the loop over path_or_uri: the four lists afterwards
_process_path_or_uri(pu, u_ok, w_ok) ==
    CHOOSE r \in UNION
        {{ListsAfter(p, sel) : sel \in {SelectOrOpen(p)}} :
            p \in {IF is_wsl
                   THEN (IF impl = "engine" THEN _process_path_or_uri_wsl(pu, u_ok, w_ok)
                         ELSE show_in_file_manager_wsl(pu, u_ok, w_ok))
                   ELSE (IF impl = "engine" THEN _process_path_or_uri_non_wsl(pu)
                         ELSE show_in_file_manager_non_wsl(pu))}} : TRUE

\* ---------------------------------------------------------------- launching
_set_file_manager_argument_always_select == "--select "

_set_file_manager_argument ==
    IF file_manager_type = "win_select" THEN "/select,"
    ELSE IF file_manager_type = "select" THEN "--select "
    ELSE IF file_manager_type = "show_item" THEN "--show-item "
    ELSE IF file_manager_type = "show_items" THEN "--show-items "
    ELSE IF file_manager_type = "reveal" THEN "--reveal "
    ELSE ""

\* one created process (api "popen"), one shell-namespace call ("shell") or
\* one os.startfile ("startfile"); u is the text after the flag, the targets
\* it is made of joined by single spaces; wait: the creator awaits its exit;
\* from: the list the targets were taken from ("" for the bare launch)
Cmd(api, exe, a, u, wait, from) ==
    [api |-> api, exe |-> exe, arg |-> a, u |-> u, wait |-> wait, from |-> from]

_launch_file_manager_reversed(exe, a, uris_or_paths, from) ==
    [i \in DOMAIN uris_or_paths |->
        Cmd("popen", exe, a, uris_or_paths[Len(uris_or_paths) + 1 - i],
            is_wsl2 /\ exe = "explorer.exe", from)]

_launch_file_manager_never_waits(exe, a, uris_or_paths, from) ==
    [i \in DOMAIN uris_or_paths |->
        Cmd("popen", exe, a, uris_or_paths[i], FALSE, from)]

_launch_file_manager(exe, a, uris_or_paths, from) ==
    [i \in DOMAIN uris_or_paths |->
        Cmd("popen", exe, a, uris_or_paths[i], is_wsl2 /\ exe = "explorer.exe", from)]

RECURSIVE Concat(_)
Concat(ss) == IF ss = <<>> THEN <<>> ELSE Head(ss) \o Concat(Tail(ss))

\* " ".join(entries) unless the file manager takes one target at a time
JoinedAlways(entries) == <<Concat(entries)>>

JoinedNever(entries) == entries

Joined(entries) ==
    IF file_manager \notin single_file_only THEN <<Concat(entries)>> ELSE entries

\* windows.launch_file_explorer: one shell call per parent folder, in the
\* order the folders first occur, selecting the requested items found there
RECURSIVE Folders(_)
Folders(paths) ==
    IF paths = <<>> THEN <<>>
    ELSE LET f == FS[Head(paths)[1].n].parent
             rest == Folders(Tail(paths))
         IN  <<f>> \o SelectSeq(rest, LAMBDA g : g # f)

launch_file_explorer_per_item(paths) ==
    [i \in DOMAIN paths |->
        Cmd("shell", "explorer.exe", "",
            IF FS[paths[i][1].n].exists THEN paths[i] ELSE <<>>, FALSE, "locations")]

launch_file_explorer(paths) ==
    LET folders == Folders(paths)
        InFolder(f) == SelectSeq(paths, LAMBDA p : FS[p[1].n].parent = f)
        Found(f) == SelectSeq(InFolder(f), LAMBDA p : FS[p[1].n].exists)
    IN  [i \in DOMAIN folders |->
            Cmd("shell", "explorer.exe", "", Concat(Found(folders[i])), FALSE,
                "locations")]

Stage(cmds, fm, a, locs, dirs) ==
    [cmds |-> cmds, file_manager |-> fm, arg |-> a, locations |-> locs,
     directories |-> dirs]

nothing_to_show_always == TRUE

\* the condition of the last block of _launch: all four lists are empty
nothing_to_show ==
    /\ locations = <<>> /\ directories = <<>>
    /\ wsl_windows_paths = <<>> /\ wsl_windows_directories = <<>>

\* The blocks of _launch that run, in order: the launches each makes and the
\* values of file_manager, arg, locations and directories once it has run.
_launch ==
    LET a1 == _set_file_manager_argument
        engine == impl = "engine"
        native == current_platform = "windows" /\ ~is_wsl
                  /\ file_manager = "explorer.exe"
        locs == IF locations # <<>> /\ ~native THEN Joined(locations) ELSE locations
        dirs == IF directories # <<>> /\ ~native THEN Joined(directories)
                ELSE directories
        a_dirs == IF engine THEN "" ELSE a1
        fm_x == IF engine THEN "explorer.exe" ELSE file_manager
        s_native_locs ==
            IF native /\ locations # <<>>
            THEN <<Stage(launch_file_explorer(locations), file_manager, a1,
                         locations, directories)>>
            ELSE <<>>
        s_native_dirs ==
            IF native /\ directories # <<>>
            THEN <<Stage([i \in DOMAIN directories |->
                             Cmd("startfile", "explorer.exe", "", directories[i], FALSE,
                                 "directories")],
                         file_manager, a1, locations, directories)>>
            ELSE <<>>
        s_locs ==
            IF ~native /\ locations # <<>>
            THEN <<Stage(_launch_file_manager(file_manager, a1, locs, "locations"),
                         file_manager, a1, locs, directories)>>
            ELSE <<>>
        s_dirs ==
            IF ~native /\ directories # <<>>
            THEN <<Stage(_launch_file_manager(file_manager, "", dirs, "directories"),
                         file_manager, a_dirs, locs, dirs)>>
            ELSE <<>>
        s_wpaths ==
            IF ~native /\ wsl_windows_paths # <<>>
            THEN <<Stage(_launch_file_manager("explorer.exe", "/select,",
                                              wsl_windows_paths, "wsl_windows_paths"),
                         fm_x, IF engine THEN "/select," ELSE a1, locs, dirs)>>
            ELSE <<>>
        s_wdirs ==
            IF ~native /\ wsl_windows_directories # <<>>
            THEN <<Stage(_launch_file_manager("explorer.exe", "", wsl_windows_directories,
                                              "wsl_windows_directories"),
                         fm_x, a_dirs, locs, dirs)>>
            ELSE <<>>
        s_bare ==
            IF nothing_to_show
            THEN <<Stage(_launch_file_manager(file_manager, "", << <<>> >>, ""),
                         file_manager, a_dirs, locations, directories)>>
            ELSE <<>>
    IN  s_native_locs \o s_native_dirs \o s_locs \o s_dirs \o s_wpaths \o s_wdirs
        \o s_bare


\* ---------------------------------------------------------------- inputs
In(form, node, slash) == [form |-> form, n |-> node, sl |-> slash]

RootUri == In("uri", "root", TRUE)

\* the path_or_uri items a caller passes in the model
Inputs ==
    IF is_wsl
    THEN {In("path", "fA", FALSE), In("path", "gX", FALSE),
          In("path", "wF", FALSE), In("uri_drive", "wD", FALSE)}
    ELSE {In("path", "fA", FALSE), In("uri", "fB", FALSE), In("path", "dD", FALSE),
          In("path", "gX", FALSE)}

\* the file_manager arguments a caller passes in the model
FileManagerArgs ==
    {NONE, "", "nautilus", "pcmanfm", "nemo", "fman", "explorer.exe"}
        \cup (IF current_platform = "linux" /\ ~is_wsl
              THEN {"peony", "dde-file-manager"} ELSE {})

CajaOutcomes(fm) == IF fm = "caja" THEN BOOLEAN ELSE {FALSE}

Environments ==
    {<<"windows", "none">>, <<"macos", "none">>, <<"linux", "none">>,
     <<"linux", "wsl1">>, <<"linux", "wsl2">>}

\* ---------------------------------------------------------------- actions
NoResolution ==
    [with |-> NONE, fm |-> NONE, type |-> NONE, how |-> "", residue |-> "none"]

NoValid == [fm |-> NONE, type |-> NONE]

NoArgs == [debug |-> FALSE, select_folder |-> FALSE, file_manager |-> NONE,
           path |-> <<>>]

NoProbe == [stock |-> Raised, user |-> Raised, on_path |-> {}]

\* the state of the process once the package is imported
Imported ==
    /\ valid_file_manager_probed = FALSE
    /\ valid_file_manager_memo = NONE
    /\ valid_file_manager_type_memo = NONE
    /\ file_manager = NONE
    /\ file_manager_type = NONE
    /\ file_manager_specified = FALSE
    /\ open_not_select_directory = TRUE
    /\ allow_conversion = TRUE
    /\ arg = ""
    /\ locations = <<>>
    /\ directories = <<>>
    /\ wsl_windows_paths = <<>>
    /\ wsl_windows_directories = <<>>
    /\ pc = "idle"
    /\ given = FALSE
    /\ inputs = <<>>
    /\ launches = <<>>
    /\ raised = FALSE
    /\ probes = 0
    /\ first_valid = NoValid
    /\ resolved = NoResolution
    /\ args = NoArgs
    /\ path_or_uri = <<>>
    /\ stderr = <<>>
    /\ exception = ""
    /\ uncaught = FALSE
    /\ probe_in = NoProbe
    /\ probe_out = ""

Init ==
    /\ \E e \in Environments : current_platform = e[1] /\ wsl = e[2]
    /\ impl \in {"engine", "module"}
    /\ main_pc = "api"
    /\ Imported

_set_valid_file_manager_always(fm, caja_select) ==
    [probed |-> TRUE,
     fm |-> IF fm # "" THEN fm ELSE valid_file_manager_memo,
     type |-> IF fm # "" THEN _file_manager_type(fm, caja_select)
              ELSE valid_file_manager_type_memo,
     ran |-> TRUE]

\* fm: what valid_file_manager() returns if it is called now
_set_valid_file_manager(fm, caja_select) ==
    IF ~valid_file_manager_probed
    THEN [probed |-> TRUE,
          fm |-> IF fm # "" THEN fm ELSE valid_file_manager_memo,
          type |-> IF fm # "" THEN _file_manager_type(fm, caja_select)
                   ELSE valid_file_manager_type_memo,
          ran |-> TRUE]
    ELSE [probed |-> valid_file_manager_probed, fm |-> valid_file_manager_memo,
          type |-> valid_file_manager_type_memo, ran |-> FALSE]

NoFileManagerReturn_never(fm) == FALSE

\* whether the call returns before classifying anything
NoFileManagerReturn(fm) ==
    IF impl = "engine" THEN ~Truthy(fm) ELSE ~(Truthy(fm) \/ is_wsl2)

KeepLists == [locations |-> locations, directories |-> directories,
              wsl_windows_paths |-> wsl_windows_paths,
              wsl_windows_directories |-> wsl_windows_directories]

\* the lists at the start of classification
ResetLists == [locations |-> <<>>, directories |-> <<>>,
               wsl_windows_paths |-> <<>>, wsl_windows_directories |-> <<>>]

\* what the lists hold when a call begins
Residue ==
    IF wsl_windows_paths # <<>> \/ wsl_windows_directories # <<>> THEN "windows"
    ELSE IF locations # <<>> \/ directories # <<>> THEN "lists"
    ELSE "none"

\* show_in_file_manager up to the loop over path_or_uri
BeginCall(fm_arg, onsd, allow, some, probe_result, caja_select) ==
    LET m == IF ~Truthy(fm_arg) THEN _set_valid_file_manager(probe_result, caja_select)
             ELSE [probed |-> valid_file_manager_probed,
                   fm |-> valid_file_manager_memo,
                   type |-> valid_file_manager_type_memo, ran |-> FALSE]
        fm == IF ~Truthy(fm_arg) THEN m.fm ELSE fm_arg
        type == IF ~Truthy(fm_arg) THEN m.type
                ELSE _file_manager_type(fm_arg, caja_select)
        init == ResetLists
    IN  /\ pc = "idle"
        /\ valid_file_manager_probed' = m.probed
        /\ valid_file_manager_memo' = m.fm
        /\ valid_file_manager_type_memo' = m.type
        /\ probes' = IF m.ran /\ probes < MaxProbes THEN probes + 1 ELSE probes
        /\ first_valid' = IF m.ran /\ probes = 0 THEN [fm |-> m.fm, type |-> m.type]
                          ELSE first_valid
        /\ file_manager' = fm
        /\ file_manager_type' = type
        /\ file_manager_specified' = (fm_arg # NONE)
        /\ open_not_select_directory' = onsd
        /\ allow_conversion' = allow
        /\ resolved' = [with |-> fm_arg, fm |-> fm, type |-> type,
                        how |-> IF Truthy(fm_arg) THEN "forced"
                                ELSE IF m.ran THEN "probed" ELSE "memo",
                        residue |-> Residue]
        /\ given' = some
        /\ inputs' = <<>>
        /\ launches' = <<>>
        /\ raised' = FALSE
        /\ IF NoFileManagerReturn(fm)
           THEN /\ pc' = "done"
                /\ UNCHANGED <<arg, lists>>
           ELSE /\ pc' = "classify"
                /\ arg' = ""
                /\ locations' = init.locations
                /\ directories' = init.directories
                /\ wsl_windows_paths' = init.wsl_windows_paths
                /\ wsl_windows_directories' = init.wsl_windows_directories
        /\ UNCHANGED config

\* a caller invokes show_in_file_manager; allow_conversion is varied only
\* where it is read (outside WSL)
Call ==
    /\ main_pc = "api"
    /\ \E fm_arg \in FileManagerArgs, onsd \in BOOLEAN,
          allow \in (IF is_wsl THEN {TRUE} ELSE BOOLEAN), some \in BOOLEAN :
        IF ~Truthy(fm_arg) /\ ~valid_file_manager_probed
        THEN \E r \in valid_file_manager_results :
                 \E c \in CajaOutcomes(r) : BeginCall(fm_arg, onsd, allow, some, r, c)
        ELSE \E c \in CajaOutcomes(fm_arg) : BeginCall(fm_arg, onsd, allow, some, "", c)
    /\ UNCHANGED <<cli, probe>>

\* the items the loop can take next: main() passes a list, which is taken in
\* order; the items of another caller are chosen as the loop takes them;
\* file:/// stands in for none on macOS
Remaining ==
    IF ~given
    THEN (IF current_platform = "macos" /\ inputs = <<>> THEN {RootUri} ELSE {})
    ELSE IF main_pc = "api" THEN (IF Len(inputs) < MaxInputs THEN Inputs ELSE {})
    ELSE IF path_or_uri # <<>> THEN {Head(path_or_uri)} ELSE {}

\* whether the loop may be over
Exhausted ==
    IF ~given THEN ~(current_platform = "macos" /\ inputs = <<>>)
    ELSE IF main_pc = "api" THEN Len(inputs) >= 1
    ELSE path_or_uri = <<>>

\* whether the input is found to exist when it is classified
FoundToExist(pu, u_ok, w_ok) ==
    IF is_wsl
    THEN wsl_transform_path_uri(pu, file_manager = "explorer.exe", u_ok, w_ok).exists
    ELSE FS[pu.n].exists

\* one iteration of the loop over path_or_uri
Classify ==
    /\ pc = "classify"
    /\ \E pu \in Remaining,
          u_ok \in (IF is_wsl THEN BOOLEAN ELSE {TRUE}),
          w_ok \in (IF is_wsl THEN BOOLEAN ELSE {TRUE}) :
        \E c \in {_process_path_or_uri(pu, u_ok, w_ok)},
           x \in {FoundToExist(pu, u_ok, w_ok)} :
            /\ inputs' = Append(inputs, [form |-> pu.form, n |-> pu.n, sl |-> pu.sl,
                                         exists |-> x])
            /\ IF c.raises
               THEN /\ pc' = "done"
                    /\ raised' = TRUE
                    /\ UNCHANGED lists
               ELSE /\ locations' = c.locations
                    /\ directories' = c.directories
                    /\ wsl_windows_paths' = c.wsl_windows_paths
                    /\ wsl_windows_directories' = c.wsl_windows_directories
                    /\ UNCHANGED <<pc, raised>>
    /\ path_or_uri' = IF path_or_uri # <<>> THEN Tail(path_or_uri) ELSE path_or_uri
    /\ UNCHANGED <<config, memo, flags, file_manager, file_manager_type, arg, given,
                   launches, probes, first_valid, resolved, main_pc, args, stderr,
                   exception, uncaught, probe>>

AllCmds(stages) == Concat([i \in DOMAIN stages |-> stages[i].cmds])

RECURSIVE StageOf(_, _)
\* the block that makes the j-th launch
StageOf(stages, j) ==
    IF Len(stages) = 1 \/ j <= Len(Head(stages).cmds) THEN Head(stages)
    ELSE StageOf(Tail(stages), j - Len(Head(stages).cmds))

\* _set_file_manager_argument and _launch: the first k launches succeed and,
\* if there are more, the next one raises (process creation failed)
Launch ==
    /\ pc = "classify"
    /\ Exhausted
    /\ \E stages \in {_launch} : \E cmds \in {AllCmds(stages)} :
           \E k \in 0..Len(cmds) :
             /\ \A i \in 1..k : cmds[i].exe # NONE
             /\ \E last \in {StageOf(stages, IF k < Len(cmds) THEN k + 1 ELSE k)} :
                    /\ launches' = SubSeq(cmds, 1, k)
                    /\ raised' = (k < Len(cmds))
                    /\ file_manager' = last.file_manager
                    /\ arg' = last.arg
                    /\ locations' = last.locations
                    /\ directories' = last.directories
    /\ pc' = "done"
    /\ UNCHANGED <<config, memo, flags, file_manager_type, wsl_windows_paths,
                   wsl_windows_directories, given, inputs, probes, first_valid,
                   resolved, cli, probe>>

\* the call is over: what it launched is history; the attributes of the
\* FileManager instance stay, the locals of showinfm.py's function do not
Return ==
    /\ main_pc = "api"
    /\ pc = "done"
    /\ pc' = "idle"
    /\ given' = FALSE
    /\ inputs' = <<>>
    /\ launches' = <<>>
    /\ raised' = FALSE
    /\ resolved' = NoResolution
    /\ IF impl = "engine"
       THEN UNCHANGED <<flags, lists, file_manager, file_manager_type, arg>>
       ELSE /\ file_manager' = NONE
            /\ file_manager_type' = NONE
            /\ file_manager_specified' = FALSE
            /\ open_not_select_directory' = TRUE
            /\ allow_conversion' = TRUE
            /\ arg' = ""
            /\ locations' = <<>>
            /\ directories' = <<>>
            /\ wsl_windows_paths' = <<>>
            /\ wsl_windows_directories' = <<>>
    /\ UNCHANGED <<config, memo, probes, first_valid, cli, probe>>

Next == Call \/ Classify \/ Launch \/ Return

Spec == Init /\ [][Next]_vars

\* ---------------------------------------------------------------- linux.py, on its own
\* valid_linux_file_manager() applied to every outcome its two probes and the
\* search path can have.
ResolveStockOutcomes ==
    {Raised, Returned("pcmanfm"), Returned("nautilus"), Returned("explorer.exe")}

ResolveUserOutcomes ==
    {Raised, Returned(""), Returned("nautilus"), Returned("pcmanfm"),
     Returned("unknownfm")}

ResolvePathSets == SUBSET {"nautilus", "pcmanfm", "explorer.exe", "unknownfm"}

InitResolve ==
    /\ current_platform = "linux"
    /\ wsl \in {"none", "wsl2"}
    /\ impl \in {"engine", "module"}
    /\ main_pc = "probe"
    /\ Imported

Resolve ==
    /\ main_pc = "probe"
    /\ \E s \in ResolveStockOutcomes, u \in ResolveUserOutcomes, w \in ResolvePathSets :
        /\ probe_in' = [stock |-> s, user |-> u, on_path |-> w]
        /\ probe_out' = valid_linux_file_manager(s, u, w)
    /\ UNCHANGED <<config, memo, flags, lists, file_manager, file_manager_type, arg, pc,
                   given, inputs, launches, raised, probes, first_valid, resolved, cli>>

NextResolve == Resolve

SpecResolve == InitResolve /\ [][NextResolve]_vars

\* ---------------------------------------------------------------- main()
\* the items of the command line: on native Windows also a pattern, dP\f*,
\* and a URI that is not a file: URI
CliInputs ==
    IF current_platform = "windows" /\ ~is_wsl
    THEN Inputs \cup {In("glob", "dP", FALSE), In("uri_other", "gX", FALSE)}
    ELSE Inputs

CliFileManagers == {NONE, "nautilus", "explorer.exe"}

RECURSIVE parse_command_line_arguments(_)
\* windows.py: [raises, value]; file_url_to_path asserts that a URI starts
\* with file:, a pattern is replaced by its matches, an item that is not a
\* directory by the matches of its own name, none when it does not exist
parse_command_line_arguments(paths) ==
    IF paths = <<>> THEN Returned(<<>>)
    ELSE LET pu == Head(paths)
             uri == is_uri(pu)
             form == IF uri THEN "uri" ELSE "path"
             here == IF pu.form = "glob"
                     THEN <<In("path", "fA", FALSE), In("path", "fB", FALSE)>>
                     ELSE IF FS[pu.n].is_dir \/ FS[pu.n].exists
                          THEN <<In(form, pu.n, FALSE)>>
                          ELSE <<>>
             rest == parse_command_line_arguments(Tail(paths))
         IN  IF pu.form = "uri_other" \/ rest.raises THEN Raised
             ELSE Returned(here \o rest.value)

InitCli ==
    /\ \E e \in Environments : current_platform = e[1] /\ wsl = e[2]
    /\ impl = "module"
    /\ main_pc = "start"
    /\ Imported

\* main() up to the try statement
MainParse ==
    /\ main_pc = "start"
    /\ \E d \in BOOLEAN, sf \in BOOLEAN, fm \in CliFileManagers, n \in 0..MaxInputs :
        \E p \in [1..n -> CliInputs] :
            /\ args' = [debug |-> d, select_folder |-> sf, file_manager |-> fm,
                        path |-> p]
            /\ \E r \in {IF current_platform = "windows" /\ ~is_wsl
                         THEN parse_command_line_arguments(p) ELSE Returned(p)} :
                IF r.raises
                THEN /\ exception' = "parse_command_line_arguments"
                     /\ uncaught' = TRUE
                     /\ main_pc' = "exited"
                     /\ UNCHANGED path_or_uri
                ELSE /\ path_or_uri' = r.value
                     /\ main_pc' = "try"
                     /\ UNCHANGED <<exception, uncaught>>
    /\ UNCHANGED <<config, memo, flags, lists, file_manager, file_manager_type, arg, pc,
                   given, inputs, launches, raised, probes, first_valid, resolved,
                   stderr, probe>>

\* main() calls show_in_file_manager
MainCall ==
    /\ main_pc = "try"
    /\ main_pc' = "call"
    /\ IF ~Truthy(args.file_manager)
       THEN \E r \in valid_file_manager_results :
                \E c \in CajaOutcomes(r) :
                    BeginCall(args.file_manager, ~args.select_folder, TRUE,
                              path_or_uri # <<>>, r, c)
       ELSE BeginCall(args.file_manager, ~args.select_folder, TRUE,
                      path_or_uri # <<>>, "", FALSE)
    /\ UNCHANGED <<args, path_or_uri, stderr, exception, uncaught, probe>>

\* the call is over: main() returns, or its except clause runs
MainExit ==
    /\ main_pc = "call"
    /\ pc = "done"
    /\ main_pc' = "exited"
    /\ IF raised
       THEN /\ stderr' = Append(stderr, "str(e)")
            /\ exception' = "show_in_file_manager"
            /\ uncaught' = args.debug
       ELSE UNCHANGED <<stderr, exception, uncaught>>
    /\ UNCHANGED <<config, memo, flags, lists, file_manager, file_manager_type, arg, pc,
                   given, inputs, launches, raised, probes, first_valid, resolved,
                   args, path_or_uri, probe>>

NextCli == MainParse \/ MainCall \/ Classify \/ Launch \/ MainExit

SpecCli == InitCli /\ [][NextCli]_vars

\* ---------------------------------------------------------------- Diagnostics
\* a probe that raised an exception whose str() is text
Failed(text) == [raises |-> TRUE, error |-> text]

\* a probe that returned value
Got(value) == [raises |-> FALSE, value |-> value]

Diagnostics_one_try(stock_out, user_out, valid_out, desktop_out) ==
    [raises |-> stock_out.raises \/ user_out.raises \/ valid_out.raises,
     stock_file_manager |-> IF stock_out.raises THEN "" ELSE stock_out.value,
     user_file_manager |-> IF stock_out.raises \/ user_out.raises THEN ""
                           ELSE user_out.value,
     valid_file_manager |-> IF stock_out.raises \/ user_out.raises \/ valid_out.raises
                            THEN "" ELSE valid_out.value,
     desktop |-> IF current_platform = "linux"
                 THEN (IF desktop_out.raises THEN "unknown" ELSE desktop_out.value)
                 ELSE "",
     wsl_version |-> IF is_wsl THEN (IF is_wsl2 THEN "2" ELSE "1") ELSE ""]

\* Diagnostics.__init__: the object built from the outcomes of
\* stock_file_manager(), user_file_manager(), valid_file_manager() and
\* linux.linux_desktop(); raises says whether an exception left __init__
Diagnostics(stock_out, user_out, valid_out, desktop_out) ==
    [raises |-> FALSE,
     stock_file_manager |-> IF stock_out.raises THEN stock_out.error
                            ELSE stock_out.value,
     user_file_manager |-> IF user_out.raises THEN user_out.error ELSE user_out.value,
     valid_file_manager |-> IF valid_out.raises THEN valid_out.error
                            ELSE valid_out.value,
     desktop |-> IF current_platform = "linux"
                 THEN (IF desktop_out.raises THEN "unknown" ELSE desktop_out.value)
                 ELSE "",
     wsl_version |-> IF is_wsl THEN (IF is_wsl2 THEN "2" ELSE "1") ELSE ""]

\* what the probes of the facade can do: fail their assertion (str() is
\* empty), fail with a message, or return a name
FacadeOutcomes(who) ==
    {Failed(""), Failed(who \o " failed"), Got("nautilus"), Got("explorer.exe")}

DesktopOutcomes ==
    {Failed("The value for XDG_CURRENT_DESKTOP is not set"), Got("gnome"), Got("wsl2")}

InitDiagnostics ==
    /\ \E e \in Environments : current_platform = e[1] /\ wsl = e[2]
    /\ impl = "module"
    /\ main_pc = "diagnostics"
    /\ Imported

\* Diagnostics() is constructed
Diagnose ==
    /\ main_pc = "diagnostics"
    /\ \E s \in FacadeOutcomes("stock"), u \in FacadeOutcomes("user"),
          v \in FacadeOutcomes("valid"), d \in DesktopOutcomes :
        /\ probe_in' = [stock |-> s, user |-> u, valid |-> v, desktop |-> d]
        /\ probe_out' = Diagnostics(s, u, v, d)
    /\ UNCHANGED <<config, memo, flags, lists, file_manager, file_manager_type, arg, pc,
                   given, inputs, launches, raised, probes, first_valid, resolved, cli>>

NextDiagnostics == Diagnose

SpecDiagnostics == InitDiagnostics /\ [][NextDiagnostics]_vars

\* ---------------------------------------------------------------- linux.py, user_linux_file_manager
\* The Exec= value of a desktop entry: NoExec when the key is missing or
\* empty, else the command (in a directory, which may hold a space), quoted or not,
\* followed by arguments or not.  ExecName is what split()[0], Path(...).name
\* and the removal of quotes make of it.
NoExec == [dir |-> "", name |-> "", quoted |-> FALSE, args |-> FALSE]

ExecName(exec) == IF exec.dir = "spaced" THEN "my" ELSE exec.name

\* the XDG application directories, in search order
xdg_data_dirs == <<"home", "usr">>

user_linux_file_manager_raises_when_missing(xdg, query, present, open_ok, parse, exec) ==
    IF ~xdg
    THEN Failed("xdg utilities and/or the python binding for xdg are not installed")
    ELSE IF query.raises THEN Failed("Could not determine file manager")
    ELSE IF \A d \in DOMAIN xdg_data_dirs : ~present[d]
    THEN Failed("Could not find desktop entry")
    ELSE IF ~open_ok THEN Failed("Could not open desktop entry")
    ELSE IF parse = "ParsingError" THEN Failed("Could not parse desktop entry")
    ELSE IF parse = "Exception" THEN Failed("Desktop entry might be malformed")
    ELSE IF exec = NoExec THEN Failed("list index out of range")
    ELSE Got(ExecName(exec))

\* xdg: have_xdg; query: the outcome of xdg-mime query default; present[d]:
\* the desktop file exists in directory d; open_ok, parse: the outcomes of
\* DesktopEntry(p) and of parse(p) on the first directory that has the file;
\* exec: its Exec= value
user_linux_file_manager(xdg, query, present, open_ok, parse, exec) ==
    IF ~xdg
    THEN Failed("xdg utilities and/or the python binding for xdg are not installed")
    ELSE IF query.raises THEN Failed("Could not determine file manager")
    ELSE IF \A d \in DOMAIN xdg_data_dirs : ~present[d] THEN Got("")
    ELSE IF ~open_ok THEN Failed("Could not open desktop entry")
    ELSE IF parse = "ParsingError" THEN Failed("Could not parse desktop entry")
    ELSE IF parse = "Exception" THEN Failed("Desktop entry might be malformed")
    ELSE IF exec = NoExec THEN Failed("list index out of range")
    ELSE Got(ExecName(exec))

QueryOutcomes == {Failed("xdg-mime"), Got("nautilus.desktop"), Got("nemo.desktop")}

ParseOutcomes == {"ok", "ParsingError", "Exception"}

ExecValues ==
    {NoExec} \cup [dir : {"", "bin", "spaced"}, name : {"nautilus", "nemo"},
                 quoted : BOOLEAN, args : BOOLEAN]

InitUserFm ==
    /\ current_platform = "linux"
    /\ wsl \in {"none", "wsl2"}
    /\ impl = "module"
    /\ main_pc = "user_fm"
    /\ Imported

\* user_linux_file_manager() is called
AskUserFm ==
    /\ main_pc = "user_fm"
    /\ probe_in = NoProbe
    /\ \E xdg \in BOOLEAN, query \in QueryOutcomes,
          present \in [DOMAIN xdg_data_dirs -> BOOLEAN], open_ok \in BOOLEAN,
          parse \in ParseOutcomes, exec \in ExecValues :
        /\ probe_in' = [have_xdg |-> xdg, query |-> query, present |-> present,
                        open_ok |-> open_ok, parse |-> parse, exec |-> exec]
        /\ probe_out' = user_linux_file_manager(xdg, query, present, open_ok, parse, exec)
    /\ UNCHANGED <<config, memo, flags, lists, file_manager, file_manager_type, arg, pc,
                   given, inputs, launches, raised, probes, first_valid, resolved, cli>>

NextUserFm == AskUserFm

SpecUserFm == InitUserFm /\ [][NextUserFm]_vars

\* ---------------------------------------------------------------- system/__init__.py, WSL detection
\* The text of /proc/version is a sequence of words; the position str.find
\* answers is 0 exactly for a match at the start of the text, so the number
\* of words before the match stands for the offset.
MaxWords == 3

VersionWords == {"Linux", "microsoft", "Microsoft", "MICROSOFT", "WSL2", "standard"}

VersionStrings == UNION {[1..n -> VersionWords] : n \in 1..MaxWords}

\* str.lower
lower_word(w) ==
    CASE w \in {"microsoft", "Microsoft", "MICROSOFT"} -> "microsoft"
      [] w = "WSL2" -> "wsl2"
      [] w = "Linux" -> "linux"
      [] OTHER -> w

lower(p) == [i \in DOMAIN p |-> lower_word(p[i])]

\* str.find: the offset of the first match, -1 when there is none
find(p, w) ==
    IF \E i \in DOMAIN p : p[i] = w
    THEN (CHOOSE i \in DOMAIN p : p[i] = w /\ \A j \in 1..(i - 1) : p[j] # w) - 1
    ELSE -1

detect_wsl(p) == find(lower(p), "microsoft") > 0

\* "p.find('WSL2')" is used as a truth value: it is false only for offset 0
wsl_version(p) ==
    IF find(p, "microsoft") > 0 /\ find(p, "WSL2") # 0 THEN "wsl2"
    ELSE IF find(p, "Microsoft") > 0 THEN "wsl"
    ELSE NONE

\* the three booleans the package sets at import on Linux
wsl_flags(p) ==
    [is_wsl |-> detect_wsl(p),
     is_wsl2 |-> detect_wsl(p) /\ wsl_version(p) = "wsl2",
     is_wsl1 |-> detect_wsl(p) /\ wsl_version(p) # "wsl2"]

InitBootstrap ==
    /\ current_platform = "linux"
    /\ wsl \in {"none", "wsl1", "wsl2"}
    /\ impl \in {"engine", "module"}
    /\ main_pc = "bootstrap"
    /\ Imported

\* the package is imported on a Linux kernel whose version text is p
Bootstrap ==
    /\ main_pc = "bootstrap"
    /\ probe_in = NoProbe
    /\ \E p \in VersionStrings :
        /\ probe_in' = [version |-> p]
        /\ probe_out' = wsl_flags(p)
    /\ UNCHANGED <<config, memo, flags, lists, file_manager, file_manager_type, arg, pc,
                   given, inputs, launches, raised, probes, first_valid, resolved, cli>>

NextBootstrap == Bootstrap

SpecBootstrap == InitBootstrap /\ [][NextBootstrap]_vars

\* ---------------------------------------------------------------- linux.py, linux_file_manager_type
\* What running "caja --version" gives: the process cannot be started, it
\* exits with an error, or it prints text: words before the first digit
\* (head), then a version (major, minor), a text packaging cannot parse
\* ("bad"), or no digit at all ("none").
CajaRuns ==
    {[kind |-> "FileNotFoundError"], [kind |-> "CalledProcessError"]}
        \cup [kind : {"output"}, head : {"", "MATE caja "},
              version : {"none", "bad", <<0, 9>>, <<1, 24>>, <<1, 26>>, <<1, 27>>,
                         <<2, 0>>}]

\* caja_version: raises, returns None, or returns the parsed version
caja_version(run) ==
    IF run.kind = "CalledProcessError" THEN Failed("Failed to get version number from caja")
    ELSE IF run.kind = "FileNotFoundError" THEN Failed("FileNotFoundError")
    ELSE IF run.version = "none" THEN Got(NONE)
    ELSE IF run.version = "bad" THEN Failed("InvalidVersion")
    ELSE Got(run.version)

caja_supports_select_any_version(run) ==
    \E version \in {caja_version(run)} :
        IF version.raises THEN FALSE
        ELSE version.value # NONE

\* caja_supports_select: version >= 1.26
caja_supports_select(run) ==
    \E version \in {caja_version(run)} :
        IF version.raises THEN FALSE
        ELSE IF version.value = NONE THEN FALSE
        ELSE \/ version.value[1] > 1
             \/ (version.value[1] = 1 /\ version.value[2] >= 26)

\* the executable names asked about: the known ones and two unknown ones
TypeQueries == known_linux_file_managers \cup {"unknownfm", ""}

InitType ==
    /\ current_platform = "linux"
    /\ wsl \in {"none", "wsl2"}
    /\ impl \in {"engine", "module"}
    /\ main_pc = "type"
    /\ Imported

\* linux_file_manager_type(file_manager) is called
AskType ==
    /\ main_pc = "type"
    /\ probe_in = NoProbe
    /\ \E fm \in TypeQueries, run \in CajaRuns :
        /\ probe_in' = [file_manager |-> fm, run |-> run]
        /\ probe_out' = linux_file_manager_type(fm, caja_supports_select(run))
    /\ UNCHANGED <<config, memo, flags, lists, file_manager, file_manager_type, arg, pc,
                   given, inputs, launches, raised, probes, first_valid, resolved, cli>>

NextType == AskType

SpecType == InitType /\ [][NextType]_vars

\* ---------------------------------------------------------------- linux.py, wsl_transform_path_uri on its own
\* every syntax of the input, for every object, with and without a trailing
\* separator
TransformInputs ==
    [form : {"path", "rel", "drive", "unc", "uri", "uri_drive", "uri_unc"},
     n : Nodes, sl : BOOLEAN]

InitTransform ==
    /\ current_platform = "linux"
    /\ wsl \in {"wsl1", "wsl2"}
    /\ impl \in {"engine", "module"}
    /\ main_pc = "transform"
    /\ Imported

\* wsl_transform_path_uri(path_or_uri, generate_win_path) is called; u_ok and
\* w_ok say whether wslpath -u and wslpath -w succeed
Transform ==
    /\ main_pc = "transform"
    /\ probe_in = NoProbe
    /\ \E pu \in TransformInputs, generate_win_path \in BOOLEAN,
          u_ok \in BOOLEAN, w_ok \in BOOLEAN :
        /\ probe_in' = [pu |-> pu, generate_win_path |-> generate_win_path,
                        u_ok |-> u_ok, w_ok |-> w_ok]
        /\ probe_out' = wsl_transform_path_uri(pu, generate_win_path, u_ok, w_ok)
    /\ UNCHANGED <<config, memo, flags, lists, file_manager, file_manager_type, arg, pc,
                   given, inputs, launches, raised, probes, first_valid, resolved, cli>>

NextTransform == Transform

SpecTransform == InitTransform /\ [][NextTransform]_vars

\* ---------------------------------------------------------------- properties
\* The call has returned, or raised, and its caller has not taken over yet.
Done == pc = "done"

\* The call ran to its end without raising.
Completed == pc = "done" /\ ~raised

NativeExplorer ==
    current_platform = "windows" /\ ~is_wsl /\ resolved.fm = "explorer.exe"

WinUriKinds == {"win_uri_orig", "win_uri_unc", "win_uri_drive"}

\* the targets of all launches of the call, in the order they were passed
Targets == Concat([i \in DOMAIN launches |-> launches[i].u])

\* C1: a call that forces no file manager, outside WSL2, for which probing
\* resolved no executable never reaches classification: it is over at once,
\* has raised nothing and has launched nothing, whatever inputs and flags it
\* was given.
C1_NoFileManagerNoLaunch ==
    (pc # "idle" /\ ~Truthy(resolved.with) /\ ~is_wsl2 /\ ~Truthy(resolved.fm))
        => (pc = "done" /\ ~raised /\ launches = <<>> /\ inputs = <<>>)

C1_Witness ==
    /\ pc = "done" /\ ~is_wsl2 /\ given /\ ~open_not_select_directory
    /\ resolved.with = NONE /\ resolved.how = "probed" /\ ~Truthy(resolved.fm)
    /\ launches = <<>> /\ ~raised

\* C2: outside WSL, a completed call whose inputs all exist and are not
\* directories, with a file manager of type select that is not in
\* single_file_only, created exactly one process: the executable, the flag
\* "--select " and the targets of all the inputs joined in input order.
C2_OneJoinedSelect ==
    (/\ Completed /\ ~is_wsl
     /\ resolved.type = "select" /\ resolved.fm \notin single_file_only
     /\ inputs # <<>>
     /\ \A i \in DOMAIN inputs : inputs[i].exists /\ ~FS[inputs[i].n].is_dir)
        => /\ Len(launches) = 1
           /\ launches[1].api = "popen"
           /\ launches[1].exe = resolved.fm
           /\ launches[1].arg = "--select "
           /\ Len(launches[1].u) = Len(inputs)
           /\ \A i \in DOMAIN inputs :
                 /\ launches[1].u[i].src = i
                 /\ launches[1].u[i].n = inputs[i].n
                 /\ launches[1].u[i].k \in {"uri", "as_uri", "quoted"}

C2_Witness ==
    /\ Completed /\ ~is_wsl /\ resolved.fm = "nautilus" /\ resolved.type = "select"
    /\ Len(inputs) = 2 /\ inputs[1].n = "fA" /\ inputs[2].n = "fB"
    /\ Len(launches) = 1 /\ Len(launches[1].u) = 2

\* every entry of locations and of directories got a launch of its own, the
\* locations first, each launch carrying the one target of its entry
OnePerEntry ==
    LET nl == Len(locations)
        nd == Len(directories)
    IN  /\ Len(launches) >= nl + nd
        /\ \A i \in 1..nl : Len(locations[i]) = 1 /\ launches[i].u = locations[i]
        /\ \A j \in 1..nd :
              Len(directories[j]) = 1 /\ launches[nl + j].u = directories[j]

\* C3 as the specification states it: with an executable of single_file_only
\* a completed call created one process per entry of locations, and one per
\* entry of directories, each with exactly one target.
C3_AsStated == (Completed /\ resolved.fm \in single_file_only) => OnePerEntry

\* C3, amended: the same, except for explorer.exe on native Windows, where no
\* process is created for an entry: locations go as one batch to the shell,
\* which is called once per parent folder, and each directory to os.startfile.
C3_OnePerEntry ==
    (Completed /\ resolved.fm \in single_file_only)
        => IF NativeExplorer
           THEN \A i \in DOMAIN launches :
                    launches[i].from # "" => launches[i].api \in {"shell", "startfile"}
           ELSE OnePerEntry /\ \A i \in DOMAIN launches : launches[i].api = "popen"

C3_Witness ==
    /\ Completed /\ resolved.fm = "pcmanfm" /\ Len(locations) = 2
    /\ Len(launches) = 2 /\ launches[1].u # launches[2].u

\* the position among the inputs of the one target of a launch
SrcOf(l) == l.u[1].src

\* the place of a list in the sequence in which _launch goes through them
ListRank(from) ==
    CASE from = "locations" -> 1
      [] from = "directories" -> 2
      [] from = "wsl_windows_paths" -> 3
      [] from = "wsl_windows_directories" -> 4
      [] OTHER -> 5

OnePerItemCall == Completed /\ resolved.fm \in single_file_only /\ ~NativeExplorer

\* C4 as the specification states it: with a file manager launched once per
\* item, the launches of a completed call are in the order of the inputs they
\* are for, a file to select and a directory to open included.
C4_AsStated ==
    OnePerItemCall
        => \A i, j \in DOMAIN launches :
              (i < j /\ launches[i].u # <<>> /\ launches[j].u # <<>>)
                  => SrcOf(launches[i]) < SrcOf(launches[j])

\* C4, amended: the launches are in input order among the entries of one
\* list, and the lists are gone through one after the other: locations,
\* directories, Windows-side paths, Windows-side directories.
C4_OrderWithinLists ==
    OnePerItemCall
        => \A i, j \in DOMAIN launches :
              (i < j /\ launches[i].u # <<>> /\ launches[j].u # <<>>)
                  => \/ ListRank(launches[i].from) < ListRank(launches[j].from)
                     \/ /\ launches[i].from = launches[j].from
                        /\ SrcOf(launches[i]) < SrcOf(launches[j])

C4_Witness ==
    /\ OnePerItemCall /\ Len(launches) = 2
    /\ launches[1].from = "locations" /\ launches[2].from = "directories"
    /\ SrcOf(launches[1]) = 2 /\ SrcOf(launches[2]) = 1

\* the executable a call is to run: its file_manager argument, else the
\* memoized valid file manager
CallExecutable ==
    IF Truthy(resolved.with) THEN resolved.with ELSE valid_file_manager_memo

\* the flag the type of that executable is given
CallFlag ==
    LET type == IF Truthy(resolved.with) THEN _file_manager_type(resolved.with, FALSE)
                ELSE valid_file_manager_type_memo
    IN  CASE type = "win_select" -> "/select,"
          [] type = "select" -> "--select "
          [] type = "show_item" -> "--show-item "
          [] type = "show_items" -> "--show-items "
          [] type = "reveal" -> "--reveal "
          [] OTHER -> ""

\* C5: whatever calls came before on the same instance, what a call launches
\* is made of its own inputs only, each at most once, by the executable and
\* with the flag that follow from its own arguments and the memoized valid
\* file manager (explorer.exe for the Windows-side lists).
C5_CallsAreIsolated ==
    Done =>
        /\ \A i \in DOMAIN Targets :
              /\ Targets[i].src \in DOMAIN inputs
              /\ Targets[i].n \in {inputs[Targets[i].src].n,
                                   FS[inputs[Targets[i].src].n].parent}
              /\ \A j \in DOMAIN Targets : Targets[j].src = Targets[i].src => j = i
        /\ \A i \in DOMAIN launches :
              LET l == launches[i]
              IN  IF l.from \in {"wsl_windows_paths", "wsl_windows_directories"}
                  THEN /\ l.exe = "explorer.exe"
                       /\ l.arg = IF l.from = "wsl_windows_paths" THEN "/select,"
                                  ELSE ""
                  ELSE IF l.api # "popen" THEN l.exe = "explorer.exe" /\ l.arg = ""
                  ELSE /\ l.exe = CallExecutable
                       /\ l.arg = IF l.from = "locations" THEN CallFlag ELSE ""

C5_Witness ==
    /\ Completed /\ impl = "engine" /\ resolved.residue = "windows"
    /\ launches # <<>> /\ launches[1].exe # "explorer.exe"
    /\ Len(Targets) = Len(inputs)

\* C6: valid_file_manager() runs at most once in a process, and every call
\* that forces no file manager works with the executable and type its first
\* run resolved, none included.
C6_ProbedOnce ==
    /\ probes <= 1
    /\ (pc # "idle" /\ ~Truthy(resolved.with))
          => /\ probes = 1
             /\ resolved.fm = first_valid.fm
             /\ resolved.type = first_valid.type
             /\ valid_file_manager_memo = first_valid.fm

C6_Witness ==
    /\ pc = "done" /\ resolved.how = "memo" /\ ~Truthy(resolved.with)
    /\ first_valid.fm = NONE /\ resolved.fm = NONE /\ probes = 1

\* every input found to exist was opened by a launch of explorer.exe with
\* its Windows URI, and nothing else was launched for an input
AllViaExplorer ==
    /\ \A i \in DOMAIN launches :
          launches[i].u # <<>> => launches[i].exe = "explorer.exe"
    /\ \A i \in DOMAIN inputs :
          inputs[i].exists
              => \E j \in DOMAIN launches :
                    /\ launches[j].exe = "explorer.exe"
                    /\ Len(launches[j].u) = 1
                    /\ launches[j].u[1].src = i
                    /\ launches[j].u[1].n = inputs[i].n
                    /\ launches[j].u[1].k \in WinUriKinds

\* C7 as the specification states it: under WSL1 every completed call, with
\* or without a forced file manager, opened all its existing inputs through
\* explorer.exe.
C7_AsStated == (Completed /\ is_wsl1) => AllViaExplorer

\* C7, amended: under WSL1 that holds of the calls that force no file
\* manager, or force explorer.exe itself; an input exists when the
\* translator says so, which takes wslpath to succeed.
C7_ExplorerUnlessForced ==
    (Completed /\ is_wsl1 /\ resolved.fm = "explorer.exe") => AllViaExplorer

C7_Witness ==
    /\ Completed /\ is_wsl1 /\ resolved.with = NONE /\ Len(inputs) = 2
    /\ inputs[1].n = "fA" /\ inputs[1].exists /\ inputs[2].n = "wD" /\ inputs[2].exists
    /\ Len(launches) = 2

\* the user's choice, when the probe returned a name the module knows
KnownUserChoice ==
    IF ~probe_in.user.raises /\ probe_in.user.value \in known_linux_file_managers
    THEN probe_in.user.value ELSE ""

StockChoice == IF probe_in.stock.raises THEN "" ELSE probe_in.stock.value

C10_MessageAndNoTrace ==
    (main_pc = "exited" /\ exception # "")
        => (stderr # <<>> /\ (uncaught <=> args.debug))

\* what a field of Diagnostics is to hold for the outcome of its own probe
FieldFor(out) == IF out.raises THEN out.error ELSE out.value

\* C11: whichever of the stock, user, valid and desktop probes fail,
\* constructing Diagnostics raises nothing and every field holds the result
\* of its own probe, or the text of its own probe's error (unknown for the
\* desktop), whatever the other probes did.
C11_DiagnosticsNeverRaises ==
    (main_pc = "diagnostics" /\ probe_in # NoProbe)
        => /\ ~probe_out.raises
           /\ probe_out.stock_file_manager = FieldFor(probe_in.stock)
           /\ probe_out.user_file_manager = FieldFor(probe_in.user)
           /\ probe_out.valid_file_manager = FieldFor(probe_in.valid)
           /\ probe_out.desktop =
                 IF current_platform # "linux" THEN ""
                 ELSE IF probe_in.desktop.raises THEN "unknown"
                 ELSE probe_in.desktop.value

C11_Witness ==
    /\ main_pc = "diagnostics" /\ current_platform = "linux"
    /\ probe_in # NoProbe
    /\ probe_in.stock = Failed("stock failed") /\ probe_in.user = Got("nautilus")
    /\ probe_in.valid = Failed("") /\ probe_in.desktop.raises
    /\ probe_out.user_file_manager = "nautilus" /\ probe_out.desktop = "unknown"
    /\ probe_out.stock_file_manager = "stock failed"

\* C12: outside WSL a completed call with a file manager has a target in one
\* of its launches for every input that does not exist on disk.  (A call
\* served by the Windows shell is left aside: the shell opens the folder of
\* such an input and selects nothing.)
C12_NonexistentKept ==
    (Completed /\ ~is_wsl /\ Truthy(resolved.fm) /\ ~NativeExplorer)
        => \A i \in DOMAIN inputs :
              ~inputs[i].exists => \E j \in DOMAIN Targets : Targets[j].src = i

\* the directory a file manager that cannot select shows for input i
ShownFor(i) ==
    IF FS[inputs[i].n].is_dir /\ open_not_select_directory THEN inputs[i].n
    ELSE FS[inputs[i].n].parent

BareLaunches == {i \in DOMAIN launches : launches[i].from = ""}

\* the targets the call put in its four lists
Listed ==
    Concat(locations) \o Concat(directories) \o Concat(wsl_windows_paths)
        \o Concat(wsl_windows_directories)

\* classification put nothing in a list for input i
Skipped(i) == \A j \in DOMAIN Listed : Listed[j].src # i

\* C14: a completed call with a usable file manager launches the bare
\* executable, with no flag and no target, at most once; it does so exactly
\* when no input produced a target, which is the case when no input was
\* supplied off macOS and is not the case when none was supplied on macOS;
\* and the bare launch is then the only launch of the call.
C14_BareIffNoTarget ==
    (Completed /\ Truthy(resolved.fm))
        => /\ Cardinality(BareLaunches) <= 1
           /\ \A i \in BareLaunches :
                 /\ launches[i].arg = "" /\ launches[i].u = <<>>
                 /\ launches[i].exe = resolved.fm
                 /\ Len(launches) = 1
           /\ (BareLaunches # {}) <=> (\A i \in DOMAIN inputs : Skipped(i))
           /\ (BareLaunches # {}) <=> (Listed = <<>>)
           /\ (~given /\ current_platform # "macos") => BareLaunches # {}
           /\ (~given /\ current_platform = "macos") => BareLaunches = {}

C14_Witness ==
    /\ Completed /\ Truthy(resolved.fm) /\ given /\ is_wsl
    /\ Len(inputs) = 2 /\ \A i \in DOMAIN inputs : ~inputs[i].exists
    /\ Len(launches) = 1 /\ launches[1].from = "" /\ launches[1].u = <<>>


\* list L holds a target for input i
InList(L, i) == \E j \in DOMAIN Concat(L) : Concat(L)[j].src = i

\* where a WSL call put input i: the Windows-side list that fits it, or the
\* Linux-side lists with launches by the resolved file manager
PlacedWindowsSide(i) ==
    /\ IF FS[inputs[i].n].is_dir /\ open_not_select_directory
       THEN InList(wsl_windows_directories, i) /\ ~InList(wsl_windows_paths, i)
       ELSE InList(wsl_windows_paths, i) /\ ~InList(wsl_windows_directories, i)
    /\ ~InList(locations, i) /\ ~InList(directories, i)

PlacedLinuxSide(i) ==
    /\ ~InList(wsl_windows_paths, i) /\ ~InList(wsl_windows_directories, i)
    /\ InList(locations, i) \/ InList(directories, i)
    /\ \E j \in DOMAIN launches :
          \E k \in DOMAIN launches[j].u : launches[j].u[k].src = i
    /\ \A j \in DOMAIN launches :
          (\E k \in DOMAIN launches[j].u : launches[j].u[k].src = i)
              => launches[j].exe = resolved.fm

\* C15 as the specification states it: under WSL an existing input goes to a
\* Windows-side list exactly when it is a Windows-side location and no file
\* manager was forced or the forced one is explorer.exe.
C15_AsStated ==
    (Completed /\ is_wsl)
        => \A i \in DOMAIN inputs :
              inputs[i].exists
                  => IF /\ FS[inputs[i].n].mnt
                        /\ (~Truthy(resolved.with) \/ resolved.with = "explorer.exe")
                     THEN PlacedWindowsSide(i)
                     ELSE PlacedLinuxSide(i)

\* C15: under WSL an input the translator reports as existing goes to a
\* Windows-side list (the directories one if it is a directory and
\* open_not_select_directory is true, the paths one otherwise) exactly when
\* the executable of the call is explorer.exe, or the input is a Windows-side
\* location and the file_manager argument is None; every other existing
\* input goes to the Linux-side lists and is launched by the resolved file
\* manager.
C15_WindowsSideRouting ==
    (Completed /\ is_wsl)
        => \A i \in DOMAIN inputs :
              inputs[i].exists
                  => IF \/ resolved.fm = "explorer.exe"
                        \/ (FS[inputs[i].n].mnt /\ resolved.with = NONE)
                     THEN PlacedWindowsSide(i)
                     ELSE PlacedLinuxSide(i)

C15_Witness ==
    /\ Completed /\ is_wsl /\ resolved.with = "explorer.exe"
    /\ Len(inputs) = 2 /\ inputs[1].n = "fA" /\ inputs[1].exists
    /\ inputs[2].n = "wD" /\ inputs[2].exists /\ open_not_select_directory
    /\ InList(wsl_windows_paths, 1) /\ InList(wsl_windows_directories, 2)


\* C16: under WSL2 a call that was given inputs and resolved no usable
\* executable does not end before classifying them: it takes its inputs, and
\* every existing Windows-side input of a call that forced no file manager
\* is shown by a launch of explorer.exe.
C16_Wsl2FallbackShown ==
    (pc = "done" /\ ~raised /\ is_wsl2 /\ given /\ ~Truthy(resolved.fm))
        => /\ inputs # <<>>
           /\ \A i \in DOMAIN inputs :
                 (inputs[i].exists /\ FS[inputs[i].n].mnt /\ resolved.with = NONE)
                     => \E j \in DOMAIN launches :
                           /\ launches[j].exe = "explorer.exe"
                           /\ \E k \in DOMAIN launches[j].u : launches[j].u[k].src = i


\* classifying pu, with the given answers of the path-translation helper,
\* raises nothing and leaves the four lists as they are
LeavesListsAlone(pu, u_ok, w_ok) ==
    \A r \in {_process_path_or_uri(pu, u_ok, w_ok)} :
        /\ ~r.raises
        /\ r.locations = locations /\ r.directories = directories
        /\ r.wsl_windows_paths = wsl_windows_paths
        /\ r.wsl_windows_directories = wsl_windows_directories

\* C17: under WSL, wherever the loop over the inputs stands, an input found
\* not to exist raises nothing and leaves the four lists, from which alone
\* the launches are made, as they are; and a completed call with an existing
\* input launches exactly the targets of its lists, one for each existing
\* input and none for any other, with no bare launch.
C17_NonexistentIsSkipped ==
    /\ (is_wsl /\ pc = "classify")
          => \A pu \in Inputs, u_ok \in BOOLEAN, w_ok \in BOOLEAN :
                ~FoundToExist(pu, u_ok, w_ok) => LeavesListsAlone(pu, u_ok, w_ok)
    /\ (Completed /\ is_wsl /\ \E i \in DOMAIN inputs : inputs[i].exists)
          => /\ Targets = Listed
             /\ BareLaunches = {}
             /\ \A j \in DOMAIN Targets : inputs[Targets[j].src].exists
             /\ \A i \in DOMAIN inputs :
                   inputs[i].exists
                       => Cardinality({j \in DOMAIN Targets : Targets[j].src = i}) = 1

C17_Witness ==
    /\ Completed /\ is_wsl /\ Len(inputs) = 2
    /\ inputs[1].n = "gX" /\ ~inputs[1].exists /\ inputs[2].exists
    /\ Len(Targets) = 1 /\ Targets[1].src = 2


\* the argument fragment of a file manager type
FlagOf(type) ==
    CASE type = "win_select" -> "/select,"
      [] type = "select" -> "--select "
      [] type = "show_item" -> "--show-item "
      [] type = "show_items" -> "--show-items "
      [] type = "reveal" -> "--reveal "
      [] OTHER -> ""

\* C18: every process a call creates carries the flag of the list its
\* targets came from: the fragment of the resolved type for locations (empty
\* for the other types and for an unresolved type), none for directories and
\* for Windows-side directories, and /select, with explorer.exe for
\* Windows-side paths.
C18_FlagByListAndType ==
    \A i \in DOMAIN launches :
        launches[i].api = "popen"
            => /\ launches[i].from = "locations"
                     => launches[i].arg = FlagOf(resolved.type)
               /\ launches[i].from \in {"directories", "wsl_windows_directories"}
                     => launches[i].arg = ""
               /\ launches[i].from = "wsl_windows_paths"
                     => launches[i].arg = "/select," /\ launches[i].exe = "explorer.exe"

C18_Witness ==
    /\ Completed /\ is_wsl2 /\ Len(launches) = 2
    /\ launches[1].from = "locations" /\ launches[1].arg = "--select "
    /\ launches[2].from = "wsl_windows_paths" /\ launches[2].arg = "/select,"
    /\ launches[2].exe = "explorer.exe"


\* the targets list L holds for input i
TargetsIn(L, i) ==
    {Concat(L)[j].n : j \in {k \in DOMAIN Concat(L) : Concat(L)[k].src = i}}

\* C19: with a file manager of type regular, an input that reaches the
\* select-or-open step is put in exactly one of locations and directories:
\* a directory in directories, as its parent when open_not_select_directory
\* is false and as itself when it is true, and anything else in locations, as
\* itself; what comes from directories is launched with no flag; outside WSL
\* every existing input reaches that step.
C19_RegularOpensDirectories ==
    (Completed /\ resolved.type = "regular")
        => /\ \A i \in DOMAIN inputs :
                 /\ (InList(locations, i) \/ InList(directories, i))
                       => IF FS[inputs[i].n].is_dir
                          THEN /\ ~InList(locations, i)
                               /\ TargetsIn(directories, i)
                                     = {IF open_not_select_directory THEN inputs[i].n
                                        ELSE FS[inputs[i].n].parent}
                          ELSE /\ ~InList(directories, i)
                               /\ TargetsIn(locations, i) = {inputs[i].n}
                 /\ (~is_wsl /\ inputs[i].exists)
                       => InList(locations, i) \/ InList(directories, i)
           /\ \A j \in DOMAIN launches :
                 launches[j].from = "directories"
                     => launches[j].arg = "" /\ launches[j].exe = resolved.fm

C19_Witness ==
    /\ Completed /\ resolved.type = "regular" /\ ~open_not_select_directory
    /\ Len(inputs) = 2 /\ inputs[1].n = "dD" /\ inputs[2].n = "fA"
    /\ Len(launches) = 2
    /\ launches[1].from = "locations" /\ launches[1].u[1].n = "fA"
    /\ launches[2].from = "directories" /\ launches[2].u[1].n = "dP"
    /\ launches[2].arg = ""


\* C20: the launches of a call are made one after the other, and the call
\* waits for the exit of a process it created exactly when it runs under
\* WSL2 and the process is explorer.exe: there every launch that follows one
\* of explorer.exe was made after that process had exited; in every other
\* configuration nothing the call launched is waited for.
C20_WaitsOnlyForExplorerUnderWsl2 ==
    \A i \in DOMAIN launches :
        /\ launches[i].wait
              <=> (is_wsl2 /\ launches[i].api = "popen"
                   /\ launches[i].exe = "explorer.exe")
        /\ ~is_wsl2 => ~launches[i].wait

C20_Witness ==
    /\ Completed /\ is_wsl2 /\ Len(launches) = 2
    /\ launches[1].exe = "explorer.exe" /\ launches[1].wait
    /\ launches[2].exe = "explorer.exe" /\ launches[2].wait
    /\ launches[1].u # launches[2].u


\* the desktop file the query named is in none of the XDG application
\* directories
EntryNotFound ==
    /\ main_pc = "user_fm" /\ probe_in # NoProbe
    /\ probe_in.have_xdg /\ ~probe_in.query.raises
    /\ \A d \in DOMAIN xdg_data_dirs : ~probe_in.present[d]

\* C21 as the specification states it: user_linux_file_manager raises when
\* the desktop file named by the MIME-default query is in none of the XDG
\* application directories, and returns no value then.
C21_AsStated == EntryNotFound => probe_out.raises

\* C21: when the desktop file named by the MIME-default query is in none of
\* the XDG application directories, user_linux_file_manager raises nothing
\* and returns the empty string; it raises when the xdg binding is missing,
\* when the query fails, and when the file is found but cannot be opened or
\* parsed or has no Exec value.
C21_EmptyWhenEntryMissing ==
    (main_pc = "user_fm" /\ probe_in # NoProbe)
        => /\ EntryNotFound => probe_out = Got("")
           /\ (~probe_in.have_xdg \/ probe_in.query.raises) => probe_out.raises
           /\ (~EntryNotFound /\ probe_in.have_xdg /\ ~probe_in.query.raises)
                 => (probe_out.raises
                        <=> (~probe_in.open_ok \/ probe_in.parse # "ok"
                             \/ probe_in.exec = NoExec))

C21_Witness ==
    /\ EntryNotFound /\ probe_in.query = Got("nautilus.desktop")
    /\ probe_in.open_ok /\ probe_in.parse = "ok" /\ probe_in.exec # NoExec
    /\ probe_out = Got("")


\* the version text has word w somewhere
Contains(p, w) == \E i \in DOMAIN p : p[i] = w

\* C22: on Linux, for every kernel version text, is_wsl is true exactly when
\* the text contains microsoft in some letter case; then is_wsl2 is true
\* exactly when it also contains WSL2 and is_wsl1 is true otherwise; when
\* is_wsl is false both are false.
C22_WslFlags ==
    (main_pc = "bootstrap" /\ probe_in # NoProbe)
        => /\ probe_out.is_wsl <=> Contains(lower(probe_in.version), "microsoft")
           /\ probe_out.is_wsl
                 => /\ probe_out.is_wsl2 <=> Contains(probe_in.version, "WSL2")
                    /\ probe_out.is_wsl1 <=> ~probe_out.is_wsl2
           /\ ~probe_out.is_wsl => (~probe_out.is_wsl1 /\ ~probe_out.is_wsl2)


\* caja printed a version that is at least 1.26
CajaAtLeast126 ==
    /\ probe_in.run.kind = "output"
    /\ probe_in.run.version \in {<<1, 26>>, <<1, 27>>, <<2, 0>>}

\* C23: linux_file_manager_type answers one FileManagerType for every
\* executable name: the table entry of a known name, regular for an unknown
\* one, and for caja select exactly when the version probe printed a version
\* of at least 1.26, dir_only_uri when the version is lower, cannot be read
\* or the probe failed.
C23_TypeOfEveryName ==
    (main_pc = "type" /\ probe_in # NoProbe)
        => /\ probe_out \in FileManagerType
           /\ probe_in.file_manager = "caja"
                 => probe_out = IF CajaAtLeast126 THEN "select" ELSE "dir_only_uri"
           /\ (probe_in.file_manager \in known_linux_file_managers
               /\ probe_in.file_manager # "caja")
                 => probe_out = LinuxFileManagerBehavior[probe_in.file_manager]
           /\ probe_in.file_manager \notin known_linux_file_managers
                 => probe_out = "regular"

C23_Witness ==
    /\ main_pc = "type" /\ probe_in # NoProbe
    /\ probe_in.file_manager = "caja" /\ probe_in.run.kind = "output"
    /\ probe_in.run.head = "MATE caja " /\ probe_in.run.version = <<1, 24>>
    /\ probe_out = "dir_only_uri"


\* wsl_transform_path_uri was applied and returned
Transformed == main_pc = "transform" /\ probe_in # NoProbe /\ ~probe_out.raises

\* C24: whatever the syntax of the input, the result of
\* wsl_transform_path_uri has no is_win_location exactly when it has no
\* linux_path, and otherwise is_win_location says whether the Linux path
\* begins with /mnt/.
C24_WinLocationByMnt ==
    Transformed
        => /\ (probe_out.is_win_location = NONE) <=> ~IsSet(probe_out.linux_path)
           /\ IsSet(probe_out.linux_path)
                 => /\ probe_out.linux_path.n = probe_in.pu.n
                    /\ probe_out.is_win_location
                          = IF FS[probe_in.pu.n].mnt THEN "True" ELSE "False"

C24_Witness ==
    /\ Transformed /\ probe_in.pu.form = "unc" /\ probe_in.pu.n = "fA"
    /\ probe_in.u_ok /\ probe_out.is_win_location = "False"
    /\ IsSet(probe_out.win_path)


\* the result for the same input written with the other choice of trailing
\* separator, the helper answering alike
Twin ==
    wsl_transform_path_uri([probe_in.pu EXCEPT !.sl = ~probe_in.pu.sl],
                           probe_in.generate_win_path, probe_in.u_ok, probe_in.w_ok)

\* C25: for an existing directory the result of wsl_transform_path_uri has a
\* linux_path with no trailing slash, a win_path with no trailing backslash
\* and a win_uri that ends in a slash, and exists, is_dir, linux_path and
\* win_uri are those of the same input written with or without a trailing
\* separator.
C25_TrailingSeparatorIgnored ==
    (Transformed /\ probe_out.exists /\ probe_out.is_dir = "True")
        => /\ ~probe_out.linux_path.sl
           /\ probe_out.win_path.k = "win_path" => ~probe_out.win_path.sl
           /\ IsSet(probe_out.win_uri) => probe_out.win_uri.sl
           /\ \A twin \in {Twin} :
                 /\ ~twin.raises
                 /\ twin.exists = probe_out.exists /\ twin.is_dir = probe_out.is_dir
                 /\ twin.linux_path = probe_out.linux_path
                 /\ twin.win_uri = probe_out.win_uri
                 /\ twin.is_win_location = probe_out.is_win_location
                 /\ probe_out.win_path.k = "win_path" => twin.win_path = probe_out.win_path

C25_Witness ==
    /\ Transformed /\ probe_out.exists /\ probe_out.is_dir = "True"
    /\ probe_in.pu.form = "drive" /\ probe_in.pu.n = "wD" /\ probe_in.pu.sl
    /\ probe_in.generate_win_path
    /\ ~probe_out.linux_path.sl /\ ~probe_out.win_path.sl /\ probe_out.win_uri.sl


\* wslpath -u is run for pu and fails
ToLinuxFails(pu, u_ok) ==
    pu.form \in {"drive", "unc", "uri_drive", "uri_unc"} /\ ~u_ok

\* wslpath -w is run for pu, whose Linux path is known and exists, and fails
ToWindowsFails(pu, u_ok, w_ok) ==
    /\ ~ToLinuxFails(pu, u_ok)
    /\ FS[pu.n].exists /\ (file_manager = "explorer.exe" \/ FS[pu.n].mnt)
    /\ ~w_ok

\* the call is in its loop over the inputs, under WSL
WslLoop == is_wsl /\ pc = "classify"

\* C26 as the specification states it: when wslpath fails for an input,
\* wsl_transform_path_uri raises nothing and the fields computed without the
\* helper, exists and is_dir of a known Linux path among them, keep the
\* values they have when the helper succeeds.
C26_AsStated ==
    WslLoop
        => \A pu \in Inputs, u_ok \in BOOLEAN, w_ok \in BOOLEAN :
              ToWindowsFails(pu, u_ok, w_ok)
                  => \A r \in {wsl_transform_path_uri(pu, file_manager = "explorer.exe",
                                                      u_ok, w_ok)},
                        ok \in {wsl_transform_path_uri(pu, file_manager = "explorer.exe",
                                                       TRUE, TRUE)} :
                        /\ ~r.raises
                        /\ r.exists = ok.exists /\ r.is_dir = ok.is_dir

\* C26: when wslpath fails for an input, wsl_transform_path_uri raises
\* nothing and reports the input as not existing; after a failed wslpath -w
\* linux_path, is_win_location and is_dir keep the values they have when the
\* helper succeeds, after a failed wslpath -u they are unset; the call puts
\* nothing in its lists for that input, goes on, and launches a target for
\* every other input that exists.
C26_HelperFailureSkipsInput ==
    /\ WslLoop
          => \A pu \in Inputs, u_ok \in BOOLEAN, w_ok \in BOOLEAN :
                \A r \in {wsl_transform_path_uri(pu, file_manager = "explorer.exe",
                                                 u_ok, w_ok)},
                   ok \in {wsl_transform_path_uri(pu, file_manager = "explorer.exe",
                                                  TRUE, TRUE)} :
                    /\ ToWindowsFails(pu, u_ok, w_ok)
                          => /\ ~r.raises /\ ~r.exists /\ ok.exists
                             /\ r.linux_path = ok.linux_path
                             /\ r.is_win_location = ok.is_win_location
                             /\ r.is_dir = ok.is_dir
                             /\ LeavesListsAlone(pu, u_ok, w_ok)
                    /\ ToLinuxFails(pu, u_ok)
                          => /\ ~r.raises /\ ~r.exists
                             /\ ~IsSet(r.linux_path)
                             /\ r.is_win_location = NONE /\ r.is_dir = NONE
                             /\ LeavesListsAlone(pu, u_ok, w_ok)
    /\ (Completed /\ is_wsl)
          => \A i \in DOMAIN inputs :
                inputs[i].exists => \E j \in DOMAIN Targets : Targets[j].src = i

C26_Witness ==
    /\ Completed /\ is_wsl /\ Len(inputs) = 2
    /\ inputs[1].n = "wF" /\ ~inputs[1].exists
    /\ inputs[2].n = "fA" /\ inputs[2].exists
    /\ Len(Targets) = 1 /\ Targets[1].src = 2 /\ Targets[1].n = "fA"


\* the parent directories of the batch handed to launch_file_explorer
BatchParents == {FS[Concat(locations)[j].n].parent : j \in DOMAIN Concat(locations)}

\* the shell open-and-select calls that were made
ShellLaunches == {i \in DOMAIN launches : launches[i].api = "shell"}

\* a call on native Windows that handed a batch to launch_file_explorer is over
ShellBatchDone == pc = "done" /\ NativeExplorer /\ locations # <<>>

\* C27 as the specification states it: the shell operation is invoked once
\* per distinct parent directory of the batch and, when it fails for one of
\* them, it is still invoked for the remaining ones: all but the failed one
\* are opened.
C27_AsStated ==
    ShellBatchDone
        => /\ Cardinality(ShellLaunches) <= Cardinality(BatchParents)
           /\ Cardinality(ShellLaunches) >= Cardinality(BatchParents) - 1

\* C27: the shell operation is invoked once per distinct parent directory of
\* the batch, each time for items of one directory; a call that did not
\* raise opened every parent directory; when the shell call for a directory
\* fails, the call ends by raising, the directories opened before stay
\* opened and nothing is launched after the failure, neither the remaining
\* parent directories nor the failed one again.
C27_ShellFailureEndsBatch ==
    ShellBatchDone
        => /\ Cardinality(ShellLaunches) <= Cardinality(BatchParents)
           /\ \A i \in ShellLaunches :
                 \A k \in DOMAIN launches[i].u :
                    /\ FS[launches[i].u[k].n].parent = FS[launches[i].u[1].n].parent
                    /\ \A j \in ShellLaunches \ {i} :
                          \A m \in DOMAIN launches[j].u :
                             FS[launches[j].u[m].n].parent
                                # FS[launches[i].u[k].n].parent
           /\ ~raised => Cardinality(ShellLaunches) = Cardinality(BatchParents)
           /\ Cardinality(ShellLaunches) < Cardinality(BatchParents)
                 => /\ raised
                    /\ \A i \in DOMAIN launches : launches[i].api = "shell"

C27_Witness ==
    /\ ShellBatchDone /\ raised
    /\ Len(inputs) = 2 /\ inputs[1].n = "fA" /\ inputs[2].n = "gX"
    /\ Cardinality(BatchParents) = 2 /\ launches = <<>>


\* the forms an entry or a launched target can have
UriKinds == {"uri", "as_uri", "reuri"}

PathKinds == {"path", "quoted"}

\* target t has the form of the input it was made from
FormKept(t) ==
    IF is_uri(inputs[t.src]) THEN t.k \in UriKinds ELSE t.k \in PathKinds

\* C28: outside WSL, with allow_conversion false, every entry the loop puts
\* in a list and every target a launch passes to the file manager is a URI
\* when it was made from a URI input and a plain path when it was made from a
\* plain-path input, whether or not the file manager requires plain paths.
C28_NoConversionKeepsForm ==
    (~is_wsl /\ ~allow_conversion)
        => /\ pc = "classify" => \A j \in DOMAIN Listed : FormKept(Listed[j])
           /\ pc = "done" =>
                \A i \in DOMAIN launches :
                    \A j \in DOMAIN launches[i].u : FormKept(launches[i].u[j])

C28_Witness ==
    /\ pc = "done" /\ ~is_wsl /\ ~allow_conversion
    /\ filemanager_requires_path(resolved.fm)
    /\ \E i \in DOMAIN launches :
          \E j \in DOMAIN launches[i].u : launches[i].u[j].k = "uri"


\* C29: while the loop over path_or_uri runs and when it is over, every
\* entry of the four lists comes from an item the loop has taken, no two
\* entries come from the same item, so the lists together hold no more
\* entries than items were taken, and no item is both in a list whose
\* entries are selected (locations, wsl_windows_paths) and in a list whose
\* entries are opened (directories, wsl_windows_directories).
C29_OneEntryPerInput ==
    pc = "classify"
        => /\ \A j \in DOMAIN Listed : Listed[j].src \in DOMAIN inputs
           /\ \A j, k \in DOMAIN Listed : Listed[j].src = Listed[k].src => j = k
           /\ Len(Listed) <= Len(inputs)
           /\ \A L \in {locations, directories, wsl_windows_paths,
                        wsl_windows_directories} : \A e \in DOMAIN L : Len(L[e]) = 1
           /\ \A i \in DOMAIN inputs :
                 ~ /\ (InList(locations, i) \/ InList(wsl_windows_paths, i))
                   /\ (InList(directories, i) \/ InList(wsl_windows_directories, i))

C29_Witness ==
    /\ pc = "classify" /\ Len(inputs) = 2
    /\ Skipped(1) /\ InList(directories, 2) /\ Len(Listed) = 1


\* wsl_transform_path_uri was called and has a result or an exception
TransformCalled == main_pc = "transform" /\ probe_in # NoProbe

\* C30: for every input, either value of generate_win_path, every outcome
\* of wslpath -u and wslpath -w and every state of the filesystem, what
\* wsl_transform_path_uri has computed when it reaches its three closing
\* assertions satisfies them: a linux_path comes with an is_win_location, a
\* win_uri with a win_path, and exists with an is_dir; an exception of the
\* function is therefore never one of theirs.
C30_ClosingAssertionsHold ==
    TransformCalled
        => /\ IsSet(probe_out.linux_path) => probe_out.is_win_location # NONE
           /\ IsSet(probe_out.win_uri) => IsSet(probe_out.win_path)
           /\ probe_out.exists => probe_out.is_dir # NONE
           /\ probe_out.raises
                 = wsl_classify_form(probe_in.pu, probe_in.u_ok).raises

C30_Witness ==
    /\ TransformCalled /\ ~probe_out.raises /\ ~probe_in.u_ok
    /\ IsSet(probe_out.linux_path) /\ IsSet(probe_out.win_uri) /\ probe_out.exists
    /\ probe_out.is_dir = "False"

====
